---- MODULE Spec2Model ----
(***************************************************************************)
(* Model of the PDF outline extractor: heading scoring, fragment merging,  *)
(* level assignment, title detection, the table-of-contents extractor,     *)
(* hierarchy assembly and JSON generation.                                 *)
(*                                                                         *)
(* Texts are sequences of one-character strings, so that the string        *)
(* operations of the program (lower, strip, split, the regular             *)
(* expressions) are computed character by character.  Scores are fixed     *)
(* point numbers: the real number r is the integer r * Scale.              *)
(*                                                                         *)
(* The(S) is the element of a one-element set.  The({e(v) : v \in {x}})    *)
(* computes x once and names its value v in e, as an assignment to a local *)
(* variable does in the program.                                           *)
(***************************************************************************)
EXTENDS Integers, Sequences, FiniteSets, TLC

VARIABLES
  document,    \* the text blocks as they were extracted (never changed)
  blocks,      \* the TextBlock objects of the document, by object identity
  candidates,  \* the HeadingCandidate list (each refers to a block)
  scores,      \* calculate_heading_score of every block, by block
  title,       \* the detected document title
  outline,     \* DocumentOutline.outline, the OutlineEntry list
  output,      \* the dictionary made by JSONGenerator.generate_output
  tocResult,   \* the result of TOCExtractor.extract_toc_headings
  tally,       \* main's pdf_files count, successful_count, failed_count, return
  error,       \* the exception that ended the pipeline, or "none"
  runs,        \* how many times the merge passes have been applied
  pc           \* the pipeline step to run next

vars ==
  <<document, blocks, candidates, scores, title, outline, output, tocResult, tally,
    error, runs, pc>>

The(S) == CHOOSE r \in S : TRUE

-----------------------------------------------------------------------------
(* Characters and the Python string operations the program uses.           *)

LowerLetters ==
  <<"a","b","c","d","e","f","g","h","i","j","k","l","m",
    "n","o","p","q","r","s","t","u","v","w","x","y","z">>

UpperLetters ==
  <<"A","B","C","D","E","F","G","H","I","J","K","L","M",
    "N","O","P","Q","R","S","T","U","V","W","X","Y","Z">>

LowerSet == {LowerLetters[i] : i \in 1..26}

UpperSet == {UpperLetters[i] : i \in 1..26}

DigitSet == {"0","1","2","3","4","5","6","7","8","9"}

SpaceSet == {" "}

IsLetter(c) == c \in LowerSet \cup UpperSet

IsAlnum(c) == IsLetter(c) \/ c \in DigitSet

LowerChar(c) ==
  IF c \in UpperSet
  THEN LowerLetters[CHOOSE i \in 1..26 : UpperLetters[i] = c]
  ELSE c

Lower(t) == The({[i \in 1..Len(s) |-> LowerChar(s[i])] : s \in {t}})

\* the first index from i on whose character is not in set (Len(s) + 1 if none)
RECURSIVE SkipSet(_, _, _)
SkipSet(s, i, set) == IF i <= Len(s) /\ s[i] \in set THEN SkipSet(s, i + 1, set) ELSE i

\* the last index up to i whose character is not in set (0 if none)
RECURSIVE SkipBack(_, _, _)
SkipBack(s, i, set) == IF i >= 1 /\ s[i] \in set THEN SkipBack(s, i - 1, set) ELSE i

\* the first index from i on whose character is in set (Len(s) + 1 if none)
RECURSIVE FindSet(_, _, _)
FindSet(s, i, set) == IF i <= Len(s) /\ s[i] \notin set THEN FindSet(s, i + 1, set) ELSE i

LStrip(t) == The({SubSeq(s, SkipSet(s, 1, SpaceSet), Len(s)) : s \in {t}})

RStrip(t) == The({SubSeq(s, 1, SkipBack(s, Len(s), SpaceSet)) : s \in {t}})

Strip(t) ==
  The({SubSeq(s, SkipSet(s, 1, SpaceSet), SkipBack(s, Len(s), SpaceSet)) : s \in {t}})

StartsWith(t, p) == \E s \in {t} : Len(p) <= Len(s) /\ SubSeq(s, 1, Len(p)) = p

EndsWith(t, p) ==
  \E s \in {t} : Len(p) <= Len(s) /\ SubSeq(s, Len(s) - Len(p) + 1, Len(s)) = p

Contains(t, p) ==
  \E s \in {t} : \E i \in 1..(Len(s) - Len(p) + 1) : SubSeq(s, i, i + Len(p) - 1) = p

CountChar(t, c) == The({Cardinality({i \in 1..Len(s) : s[i] = c}) : s \in {t}})

\* the sequence s restricted to the indices of the set keep, in order
KeepIndices(t, keep) ==
  The({The({[k \in 1..Len(sel) |-> s[sel[k]]] :
            sel \in {SelectSeq([i \in 1..Len(s) |-> i], LAMBDA i : i \in K)}}) :
       s \in {t}, K \in {keep}})

\* the indices where a word of s begins
WordStarts(s) == {i \in 1..Len(s) : s[i] \notin SpaceSet /\ (i = 1 \/ s[i - 1] \in SpaceSet)}

\* the word of s that begins at i
WordAt(s, i) == SubSeq(s, i, FindSet(s, i, SpaceSet) - 1)

\* set(s.split())
WordSet(t) == The({{WordAt(s, i) : i \in WordStarts(s)} : s \in {t}})

\* len(s.split())
WordCount(t) == The({Cardinality(WordStarts(s)) : s \in {t}})

\* s.split(): the words in order
Split(t) ==
  The({The({[k \in 1..Len(st) |-> WordAt(s, st[k])] :
            st \in {SelectSeq([i \in 1..Len(s) |-> i],
                              LAMBDA i : s[i] \notin SpaceSet
                                         /\ (i = 1 \/ s[i - 1] \in SpaceSet))}}) :
       s \in {t}})

\* re.sub(r'\s+', ' ', s), also re.sub(r'\s{2,}', ' ', s): a run of spaces
\* becomes one space
CollapseSpaces(t) ==
  The({KeepIndices(s, {i \in 1..Len(s) :
                         s[i] \notin SpaceSet \/ i = 1 \/ s[i - 1] \notin SpaceSet}) :
       s \in {t}})

\* ' '.join(words)
RECURSIVE JoinFrom(_, _)
JoinFrom(ws, k) ==
  IF k > Len(ws) THEN <<>>
  ELSE IF k = Len(ws) THEN ws[k]
  ELSE ws[k] \o <<" ">> \o JoinFrom(ws, k + 1)

JoinWords(words) == The({JoinFrom(ws, 1) : ws \in {words}})

IsDigitStr(t) == \E s \in {t} : s # <<>> /\ \A i \in 1..Len(s) : s[i] \in DigitSet

IsUpperStr(t) ==
  \E s \in {t} : /\ \E i \in 1..Len(s) : s[i] \in UpperSet
                 /\ \A i \in 1..Len(s) : s[i] \notin LowerSet

IsTitleStr(t) ==
  \E s \in {t} :
    /\ \E i \in 1..Len(s) : IsLetter(s[i])
    /\ \A i \in 1..Len(s) :
         /\ s[i] \in UpperSet => ~(i > 1 /\ IsLetter(s[i - 1]))
         /\ s[i] \in LowerSet => (i > 1 /\ IsLetter(s[i - 1]))

\* int(s) of a string of digits: the value of its first n digits
RECURSIVE ToIntUpTo(_, _)
ToIntUpTo(s, n) ==
  IF n = 0 THEN 0
  ELSE 10 * ToIntUpTo(s, n - 1)
       + (CHOOSE d \in 0..9 : <<"0","1","2","3","4","5","6","7","8","9">>[d + 1] = s[n])

ToInt(t) == The({ToIntUpTo(s, Len(s)) : s \in {t}})

\* fixed point: the real number r is represented by the integer r * Scale
Scale == 2520 * 1000

-----------------------------------------------------------------------------
(* Sorting: Python's sort is stable; keys are tuples of integers.          *)

LexLess(a, b) ==
  \E k \in 1..Len(a) : a[k] < b[k] /\ \A m \in 1..(k - 1) : a[m] = b[m]

\* the position element i takes in the stable sort by keys
SortRank(keys, i) ==
  1 + Cardinality({j \in 1..Len(keys) :
                     LexLess(keys[j], keys[i]) \/ (j < i /\ keys[j] = keys[i])})

StableSort(seq, sortKeys) ==
  The({[k \in 1..Len(s) |-> s[CHOOSE i \in 1..Len(s) : SortRank(keys, i) = k]] :
       s \in {seq}, keys \in {sortKeys}})

Reverse(seq) == The({[k \in 1..Len(s) |-> s[Len(s) + 1 - k]] : s \in {seq}})

Max(a, b) == IF a >= b THEN a ELSE b

Min(a, b) == IF a <= b THEN a ELSE b

Abs(a) == IF a < 0 THEN -a ELSE a

SetMax(S) == CHOOSE m \in S : \A e \in S : e <= m

SetMin(S) == CHOOSE m \in S : \A e \in S : m <= e
-----
(* Text constants of the program.                                          *)

Bullet == "<bullet>"

MiddleDot == "<middot>"

\* "Untitled Document"
UntitledDocument ==
  <<"U","n","t","i","t","l","e","d"," ","D","o","c","u","m","e","n","t">>

\* "climate change the role of renewable energy in combating"
FragClimateRole ==
  <<"c","l","i","m","a","t","e"," ","c","h","a","n","g","e"," ","t","h","e"," ","r","o",
    "l","e"," ","o","f"," ","r","e","n","e","w","a","b","l","e"," ","e","n","e","r","g",
    "y"," ","i","n"," ","c","o","m","b","a","t","i","n","g">>

\* "the role of renewable energy in combating climate change"
FragRoleClimate ==
  <<"t","h","e"," ","r","o","l","e"," ","o","f"," ","r","e","n","e","w","a","b","l","e",
    " ","e","n","e","r","g","y"," ","i","n"," ","c","o","m","b","a","t","i","n","g"," ",
    "c","l","i","m","a","t","e"," ","c","h","a","n","g","e">>

\* "climate change"
FragClimate ==
  <<"c","l","i","m","a","t","e"," ","c","h","a","n","g","e">>

\* "the role of renewable energy in combating"
FragRole ==
  <<"t","h","e"," ","r","o","l","e"," ","o","f"," ","r","e","n","e","w","a","b","l","e",
    " ","e","n","e","r","g","y"," ","i","n"," ","c","o","m","b","a","t","i","n","g">>

\* "in education the importance of mental health awareness"
FragEducationFirst ==
  <<"i","n"," ","e","d","u","c","a","t","i","o","n"," ","t","h","e"," ","i","m","p","o",
    "r","t","a","n","c","e"," ","o","f"," ","m","e","n","t","a","l"," ","h","e","a","l",
    "t","h"," ","a","w","a","r","e","n","e","s","s">>

\* "the importance of mental health awareness in education"
FragEducationLast ==
  <<"t","h","e"," ","i","m","p","o","r","t","a","n","c","e"," ","o","f"," ","m","e","n",
    "t","a","l"," ","h","e","a","l","t","h"," ","a","w","a","r","e","n","e","s","s"," ",
    "i","n"," ","e","d","u","c","a","t","i","o","n">>

-----------------------------------------------------------------------------------------------------------------------------------------------------
(* UnicodeHandler.clean_extracted_text (utils/validation.py).              *)

\* a match of open \s* close begins at i
MatchEmptyBracket(s, i, open, close) ==
  IF s[i] = open
  THEN \E j \in {SkipSet(s, i + 1, SpaceSet)} : j <= Len(s) /\ s[j] = close
  ELSE FALSE

\* a match of \(\s*-\s*-\s*\) begins at i
MatchTwoDashes(s, i) ==
  IF s[i] = "("
  THEN \E a \in {SkipSet(s, i + 1, SpaceSet)} :
         /\ a <= Len(s) /\ s[a] = "-"
         /\ \E b \in {SkipSet(s, a + 1, SpaceSet)} :
              /\ b <= Len(s) /\ s[b] = "-"
              /\ \E c \in {SkipSet(s, b + 1, SpaceSet)} : c <= Len(s) /\ s[c] = ")"
  ELSE FALSE

\* a match of \(\s*-+\s*\) begins at i
MatchDashes(s, i) ==
  IF s[i] = "("
  THEN \E a \in {SkipSet(s, i + 1, SpaceSet)} :
         \E b \in {SkipSet(s, a, {"-"})} :
           /\ b > a
           /\ \E c \in {SkipSet(s, b, SpaceSet)} : c <= Len(s) /\ s[c] = ")"
  ELSE FALSE

\* the artifact patterns of clean_extracted_text, by their position in the
\* list: a match of pattern k begins at i
MatchArtifact(s, i, k) ==
  CASE k = 1 -> MatchEmptyBracket(s, i, "(", ")")
    [] k = 2 -> MatchTwoDashes(s, i)
    [] k = 3 -> MatchDashes(s, i)
    [] k = 4 -> MatchEmptyBracket(s, i, "[", "]")
    [] k = 5 -> MatchEmptyBracket(s, i, "{", "}")

\* re.sub(pattern k, '', s): every match is removed.  A match runs from an
\* opening bracket to the next closing one, so matches do not overlap.
SubArtifact(t, k) ==
  The({KeepIndices(s, (1..Len(s)) \ UNION {i..FindSet(s, i, {")", "]", "}"}) :
                                            i \in {j \in 1..Len(s) : MatchArtifact(s, j, k)}}) :
       s \in {t}})

\* re.sub(r'^\s*[-..]\s*', '', s): a leading bullet
SubLeadingBullet(t) ==
  The({The({IF a <= Len(s) /\ s[a] \in {"-", Bullet, MiddleDot}
            THEN SubSeq(s, SkipSet(s, a + 1, SpaceSet), Len(s))
            ELSE s : a \in {SkipSet(s, 1, SpaceSet)}}) : s \in {t}})

SubSpaceRuns(t) == CollapseSpaces(t)

normalize_text(text) == The({IF s = <<>> THEN <<>> ELSE Strip(s) : s \in {text}})

StandaloneArtifacts ==
  { <<"(", ")">>, <<"(", " ", ")">>, <<"(", "-", ")">>, <<"(", " ", "-", " ", ")">>,
    <<"(", " ", "-", " ", "-", " ", ")">>, <<"[", "]">>, <<"{", "}">>,
    <<"-">>, <<Bullet>>, <<MiddleDot>> }

clean_extracted_text(text) ==
  The({IF cleaned \in StandaloneArtifacts THEN <<>> ELSE cleaned :
       cleaned \in {Strip(SubSpaceRuns(LStrip(RStrip(SubLeadingBullet(
                      SubArtifact(SubArtifact(SubArtifact(SubArtifact(SubArtifact(
                        normalize_text(text), 1), 2), 3), 4), 5))))))}})
-----------------------------------------------------------------------------
(* Data model (models/data_models.py).                                     *)

Levels == {"H1", "H2", "H3"}

\* an OutlineEntry constructor that validates nothing
NeverRaises(level, text, page) == FALSE

\* OutlineEntry.__post_init__: TRUE when the constructor raises ValueError
OutlineEntryRaises(level, text, page) ==
  \/ level \notin Levels
  \/ Strip(text) = <<>>
  \/ page < 0

\* origin is not a field of the program's object: it records the block the
\* entry was built from, so that properties can refer to its position
OutlineEntry(level, text, page, conf, origin) ==
  [level |-> level, text |-> Strip(text), page |-> page, confidence_score |-> conf,
   origin |-> origin]

\* a DocumentOutline that ignores the title it is given
UntitledOutline(t, entries) ==
  [title |-> UntitledDocument, outline |-> entries]

\* DocumentOutline.__post_init__: title default, outline sorted by page
DocumentOutline(t, entries) ==
  [title   |-> The({IF s = <<>> THEN UntitledDocument ELSE s : s \in {Strip(t)}}),
   outline |-> The({StableSort(es, [k \in 1..Len(es) |-> <<es[k].page>>]) :
                    es \in {entries}})]

\* HeadingCandidate.text, HeadingCandidate.page
CandText(c, blks) == blks[c.blk].text

CandPage(c, blks) == blks[c.blk].page_number

-----------------------------------------------------------------------------
(* HierarchyBuilder (services/hierarchy_builder.py).                       *)

TitleFragments ==
  {FragClimateRole, FragRoleClimate, FragClimate, FragRole,
   FragEducationFirst, FragEducationLast}

is_title_duplicate(heading_text, document_title) ==
  IF heading_text = <<>> \/ document_title = <<>> THEN FALSE
  ELSE \E heading_lower \in {Strip(Lower(heading_text))},
          title_lower \in {Strip(Lower(document_title))} :
         \/ heading_lower = title_lower
         \/ \E heading_words \in {WordSet(heading_lower)},
               title_words \in {WordSet(title_lower)} :
              /\ Cardinality(heading_words) > 0
              /\ Cardinality(heading_words \cap title_words) * 10
                   > 8 * Cardinality(heading_words)
              /\ Cardinality(heading_words) > 4
         \/ heading_lower \in TitleFragments

\* the sort of build_outline: (page, -y1) ascending, in place
SortHeadings(headings, blks) ==
  StableSort(headings,
             [k \in 1..Len(headings) |->
                <<blks[headings[k].blk].page_number, -blks[headings[k].blk].y1>>])

\* a loop that skips the title duplicates and the empty texts only
SkipsTitleDuplicate(heading, blks, document_title) ==
  \/ is_title_duplicate(CandText(heading, blks), document_title)
  \/ Strip(clean_extracted_text(CandText(heading, blks))) = <<>>

\* the loop of build_outline skips this heading
SkipsHeading(heading, blks, document_title) ==
  \/ is_title_duplicate(CandText(heading, blks), document_title)
  \/ heading.suggested_level = "Body"
  \/ Strip(clean_extracted_text(CandText(heading, blks))) = <<>>

\* build_outline: the list as sorted in place, the outline, and whether an
\* OutlineEntry constructor raised
build_outline(headings, blks, document_title) ==
  IF headings = <<>>
  THEN [raised |-> FALSE, headings |-> headings,
        doc |-> DocumentOutline(document_title, <<>>)]
  ELSE The({The({
         [raised   |-> \E k \in kept :
                         OutlineEntryRaises(sorted[k].suggested_level,
                                            CandText(sorted[k], blks),
                                            CandPage(sorted[k], blks)),
          headings |-> sorted,
          doc      |-> DocumentOutline(
                         document_title,
                         Reverse(KeepIndices(
                           [k \in 1..Len(sorted) |->
                              OutlineEntry(sorted[k].suggested_level,
                                           CandText(sorted[k], blks),
                                           CandPage(sorted[k], blks),
                                           sorted[k].confidence_score,
                                           sorted[k].blk)],
                           kept)))] :
         kept \in {{k \in 1..Len(sorted) :
                      ~SkipsHeading(sorted[k], blks, document_title)}}}) :
       sorted \in {SortHeadings(headings, blks)}})

-----------------------------------------------------------------------------
(* JSONGenerator (services/json_generator.py).                             *)

\* re.sub(r'\.{3,}', '', s): runs of three or more dots are removed
SubDotRuns(t) ==
  The({KeepIndices(s, {j \in 1..Len(s) :
                         \/ s[j] # "."
                         \/ SkipSet(s, j, {"."}) - SkipBack(s, j, {"."}) - 1 < 3}) :
       s \in {t}})

remove_text_artifacts(text) == Strip(SubSpaceRuns(SubDotRuns(text)))

\* cleaned[:n].strip(), then cut at the last space when there is one
Truncate(t, n) ==
  The({The({IF sp = {} THEN cut ELSE SubSeq(cut, 1, SetMax(sp) - 1) :
            sp \in {{i \in 1..Len(cut) : cut[i] = " "}}}) :
       cut \in {Strip(SubSeq(t, 1, n))}})

MaxTitleChars == 200

MaxEntryChars == 500

clean_text(text) ==
  IF text = <<>> THEN <<>>
  ELSE The({Strip(IF Len(cleaned) > MaxEntryChars THEN Truncate(cleaned, MaxEntryChars)
                  ELSE cleaned) :
            cleaned \in {remove_text_artifacts(clean_extracted_text(text))}})

clean_title(t) ==
  IF t = <<>> THEN UntitledDocument
  ELSE The({IF cleaned = <<>> THEN UntitledDocument ELSE cleaned :
            cleaned \in {The({Strip(IF Len(c) > MaxTitleChars
                                    THEN Truncate(c, MaxTitleChars) ELSE c) :
                              c \in {clean_extracted_text(t)}})}})

\* a format_outline_entry that writes every entry as a top-level heading
FormatAsTopLevel(entry) ==
  [raised |-> FALSE,
   item   |-> [level |-> "H1", text |-> clean_text(entry.text), page |-> entry.page]]

\* format_outline_entry: raised is TRUE when it raises JSONGenerationError
format_outline_entry(entry) ==
  The({[raised |-> \/ cleaned_text = <<>>
                   \/ entry.level \notin Levels
                   \/ entry.page < 0,
        item   |-> [level |-> entry.level, text |-> cleaned_text, page |-> entry.page]] :
       cleaned_text \in {clean_text(entry.text)}})

\* JSONSchemaValidator.validate_json_output: TRUE when the output is valid
validate_json_output(data) ==
  /\ Strip(data.title) # <<>>
  /\ \A i \in 1..Len(data.outline) :
       /\ data.outline[i].level \in Levels
       /\ Strip(data.outline[i].text) # <<>>
       /\ data.outline[i].page >= 0

generate_output(doc) ==
  The({The({[raised |-> \/ \E i \in 1..Len(items) : items[i].raised
                        \/ ~validate_json_output(out),
             output |-> out] :
            out \in {[title   |-> clean_title(doc.title),
                      outline |-> [i \in 1..Len(items) |-> items[i].item]]}}) :
       items \in {[i \in 1..Len(doc.outline) |-> format_outline_entry(doc.outline[i])]}})
-----
(* Objects: TextBlock (with its FontMetadata, PositionInfo and StyleInfo)  *)
(* and HeadingCandidate.  A candidate refers to its block by index, as the *)
(* program's candidates share the TextBlock objects of the block list.     *)

\* TextBlock.__post_init__ strips the text; FontMetadata starts with rank 0
TextBlock(text, page, size, family, weight, x0, x1, y1, height) ==
  [text |-> Strip(text), page_number |-> page,
   size |-> size, family |-> family, weight |-> weight, style |-> "normal",
   relative_size_rank |-> 0,
   x0 |-> x0, y0 |-> y1 - height, x1 |-> x1, y1 |-> y1,
   width |-> x1 - x0, height |-> height,
   is_bold |-> (weight = "bold")]

NoFactors ==
  [font_score |-> 0, position_score |-> 0, whitespace_score |-> 0,
   text_pattern_score |-> 0, length_score |-> 0, font_size |-> 0,
   relative_size_rank |-> 0, is_bold |-> FALSE, text_length |-> 0]

HeadingCandidate(blk, conf, factors, level) ==
  [blk |-> blk, confidence_score |-> conf, classification_factors |-> factors,
   suggested_level |-> level]

\* "Overview"
TxtOverview ==
  <<"O","v","e","r","v","i","e","w">>

\* "Background"
TxtBackground ==
  <<"B","a","c","k","g","r","o","u","n","d">>

\* "Annual  Report"
TxtAnnualReportWide ==
  <<"A","n","n","u","a","l"," "," ","R","e","p","o","r","t">>

\* "ANNUAL report"
TxtAnnualReportCaps ==
  <<"A","N","N","U","A","L"," ","r","e","p","o","r","t">>

\* "Annual Report"
TxtAnnualReport ==
  <<"A","n","n","u","a","l"," ","R","e","p","o","r","t">>

\* "...."
TxtDots ==
  <<".",".",".",".">>

\* "Annual Report of the Energy Board"
TxtReportLong ==
  <<"A","n","n","u","a","l"," ","R","e","p","o","r","t"," ","o","f"," ","t","h","e"," ",
    "E","n","e","r","g","y"," ","B","o","a","r","d">>

\* "report of the energy board"
TxtReportPart ==
  <<"r","e","p","o","r","t"," ","o","f"," ","t","h","e"," ","e","n","e","r","g","y"," ",
    "b","o","a","r","d">>

-----------------------------------------------------------------------------------------------------------------------------------------------------
(* ClassificationConfig (config.py).  The weights are in tenths, the       *)
(* thresholds in fixed point.                                              *)

Frac(n, d) == (n * Scale) \div d

\* x times a weight given in tenths
Tenths(x, w) == (x * w) \div 10

config ==
  [font_size_weight |-> 4, font_weight_importance |-> 2, position_weight |-> 2,
   whitespace_weight |-> 1, text_length_weight |-> 1,
   max_heading_length |-> 200, min_heading_length |-> 3,
   heading_confidence_threshold |-> Frac(3, 10),
   title_confidence_threshold |-> Frac(5, 10),
   title_consensus_threshold |-> Frac(9, 10),
   fragment_merge_threshold |-> Frac(2, 10)]

-----------------------------------------------------------------------------
(* FontAnalyzer (services/font_analyzer.py).                               *)

FontSizes(blks) == {blks[b].size : b \in 1..Len(blks)}

\* the sizes, the smallest first
RECURSIVE AscendingSizes(_)
AscendingSizes(sizes) ==
  IF sizes = {} THEN <<>>
  ELSE <<SetMin(sizes)>> \o AscendingSizes(sizes \ {SetMin(sizes)})

\* sorted(set(...), reverse=True): the sizes, the largest first
RECURSIVE SortedSizes(_)
SortedSizes(sizes) ==
  IF sizes = {} THEN <<>>
  ELSE <<SetMax(sizes)>> \o SortedSizes(sizes \ {SetMax(sizes)})

\* _calculate_relative_rankings: size_to_rank, the position of every size in
\* unique_sizes, counted from 0
calculate_relative_rankings(blks) ==
  The({[z \in FontSizes(blks) |->
          (CHOOSE rank \in 0..(Len(unique_sizes) - 1) : unique_sizes[rank + 1] = z)] :
       unique_sizes \in {SortedSizes(FontSizes(blks))}})

\* analyze_font_relationships: the rank is written into every block of the
\* list
analyze_font_relationships(blks) ==
  The({[b \in 1..Len(blks) |->
          [blks[b] EXCEPT !.relative_size_rank = size_to_rank[blks[b].size]]] :
       size_to_rank \in {calculate_relative_rankings(blks)}})

calculate_font_score(block, blks) ==
  IF blks = <<>> THEN 0
  ELSE The({
    Min((IF max_size > min_size
         THEN ((block.size - min_size) * Tenths(Scale, config.font_size_weight))
                \div (max_size - min_size)
         ELSE 0)
        + (IF block.is_bold \/ block.weight = "bold"
           THEN Tenths(Scale, config.font_weight_importance) ELSE 0)
        + (IF block.relative_size_rank <= 2 THEN Frac(1, 10) ELSE 0)
        + (IF 2 * Cardinality({b \in 1..Len(blks) : blks[b].family = block.family})
                < Len(blks)
           THEN Frac(5, 100) ELSE 0),
        Scale) :
    min_size \in {SetMin(FontSizes(blks))}, max_size \in {SetMax(FontSizes(blks))}})

-----------------------------------------------------------------------------
(* HeadingClassifier (services/heading_classifier.py): the scores.         *)

calculate_position_score(block, blks) ==
  The({
    Min((IF y_max > y_min
         THEN ((block.y1 - y_min) * Frac(3, 10)) \div (y_max - y_min) ELSE 0)
        + (IF x_max > x_min /\ (block.x0 - x_min) * 10 < (x_max - x_min)
           THEN Frac(2, 10) ELSE 0)
        + (IF block.page_number = 0 THEN Frac(1, 10) ELSE 0),
        Scale) :
    y_min \in {SetMin({blks[b].y1 : b \in 1..Len(blks)})},
    y_max \in {SetMax({blks[b].y1 : b \in 1..Len(blks)})},
    x_min \in {SetMin({blks[b].x0 : b \in 1..Len(blks)})},
    x_max \in {SetMax({blks[b].x0 : b \in 1..Len(blks)})}})

\* the blocks of a page, in list order
PageBlocks(blks, page) == SelectSeq(blks, LAMBDA b : b.page_number = page)

calculate_whitespace_score(block, blks) ==
  The({
    IF Len(sorted_blocks) > 1 /\ \E i \in 1..Len(sorted_blocks) : sorted_blocks[i] = block
    THEN The({
           Min((IF current_index > 1
                   /\ sorted_blocks[current_index - 1].y0 - block.y1 > 10
                THEN Frac(3, 10) ELSE 0)
               + (IF current_index < Len(sorted_blocks)
                     /\ block.y0 - sorted_blocks[current_index + 1].y1 > 10
                  THEN Frac(3, 10) ELSE 0),
               Scale) :
           current_index \in
             {SetMin({i \in 1..Len(sorted_blocks) : sorted_blocks[i] = block})}})
    ELSE 0 :
    sorted_blocks \in
      {The({StableSort(page_blocks, [k \in 1..Len(page_blocks) |-> <<-page_blocks[k].y1>>]) :
            page_blocks \in {PageBlocks(blks, block.page_number)}})}})

ArtifactPatterns ==
  {<<"("," ",")">>, <<"("," ","-"," ",")">>, <<"("," ","-"," ","-"," ",")">>, <<"(","-",")">>, <<"[","]">>, <<"{","}">>, <<".",".",".">>, <<".",".">>, <<".">>,
   <<"(",")">>, <<"("," ","-","-"," ",")">>, <<"(","-","-",")">>, <<"("," ","-","-","-"," ",")">>, <<"(","-","-","-",")">>}

\* the artifact_regex_patterns: the whole text is a bracket pair of pattern k
\* of MatchArtifact, only dots, or only dashes
IsArtifactText(text) ==
  /\ text # <<>>
  /\ \/ \E k \in {1, 3, 4, 5} :
          MatchArtifact(text, 1, k) /\ FindSet(text, 1, {")", "]", "}"}) = Len(text)
     \/ \A i \in 1..Len(text) : text[i] = "."
     \/ \A i \in 1..Len(text) : text[i] = "-"

\* re.match(r'^\d+\.?\s+', text)
MatchNumberPrefix(text) ==
  \E a \in {SkipSet(text, 1, DigitSet)} :
    /\ a > 1
    /\ \E b \in {IF a <= Len(text) /\ text[a] = "." THEN a + 1 ELSE a} :
         b <= Len(text) /\ text[b] \in SpaceSet

\* re.match(r'^Chapter\s+\d+', text, re.IGNORECASE)
MatchChapter(text) ==
  /\ StartsWith(Lower(text), <<"c","h","a","p","t","e","r">>)
  /\ \E a \in {SkipSet(text, 8, SpaceSet)} :
       a > 8 /\ a <= Len(text) /\ text[a] \in DigitSet

HeadingWords ==
  {<<"i","n","t","r","o","d","u","c","t","i","o","n">>, <<"c","o","n","c","l","u","s","i","o","n">>, <<"a","b","s","t","r","a","c","t">>, <<"s","u","m","m","a","r","y">>, <<"c","h","a","p","t","e","r">>,
   <<"s","e","c","t","i","o","n">>, <<"a","p","p","e","n","d","i","x">>}

Articles ==
  {<<"t","h","e">>, <<"a">>, <<"a","n">>, <<"a","n","d">>, <<"o","r">>, <<"b","u","t">>, <<"i","n">>, <<"o","n">>, <<"a","t">>, <<"t","o">>,
   <<"f","o","r">>, <<"o","f">>, <<"w","i","t","h">>}

\* the sum of the bonuses and penalties of _calculate_text_pattern_score for
\* a text that is not rejected
TextPatternSum(text) ==
  (IF Len(text) <= 2 THEN Frac(1, 10) ELSE 0)
  + (IF Len(text) > 150 THEN -Frac(3, 10)
     ELSE IF config.min_heading_length <= Len(text) /\ Len(text) <= 100 THEN Frac(3, 10)
     ELSE IF Len(text) <= config.max_heading_length THEN Frac(2, 10)
     ELSE 0)
  + (IF IsUpperStr(text) THEN Frac(2, 10)
     ELSE IF IsTitleStr(text) THEN Frac(3, 10)
     ELSE IF text # <<>> /\ text[1] \in UpperSet THEN Frac(1, 10)
     ELSE 0)
  + (IF ~EndsWith(text, <<".">>) THEN Frac(2, 10) ELSE 0)
  + (IF MatchNumberPrefix(text) \/ MatchChapter(text) THEN Frac(3, 10) ELSE 0)
  + (IF \E text_lower \in {Lower(text)} : \E word \in HeadingWords : Contains(text_lower, word)
     THEN Frac(2, 10) ELSE 0)
  + (IF WordCount(text) >= 2 THEN Frac(1, 10) ELSE 0)
  + (IF Len(text) > 100
        /\ \E words \in {Split(text)} :
             \E k \in 1..Min(10, Len(words)) : Lower(words[k]) \in Articles
     THEN -Frac(3, 10) ELSE 0)

calculate_text_pattern_score(block) ==
  The({
    IF CollapseSpaces(text) \in ArtifactPatterns THEN 0
    ELSE IF IsArtifactText(text) THEN 0
    ELSE IF /\ Len(text) <= 2
            /\ ~((\E i \in 1..Len(text) : IsLetter(text[i])) /\ IsUpperStr(text))
            /\ ~IsDigitStr(text)
         THEN 0
    ELSE IF ~\E i \in 1..Len(text) : IsAlnum(text[i]) THEN 0
    ELSE IF CountChar(text, ".") + CountChar(text, "!") + CountChar(text, "?") > 1 THEN 0
    ELSE IF Len(text) > 200 THEN 0
    ELSE Min(TextPatternSum(text), Scale) :
    text \in {Strip(block.text)}})

calculate_length_score(block) ==
  The({
    IF text_length = 0 THEN 0
    ELSE IF config.min_heading_length <= text_length /\ text_length <= 50 THEN Scale
    ELSE IF text_length <= config.max_heading_length
         THEN Max(0, Scale - ((text_length - 50) * Scale) \div (config.max_heading_length - 50))
    ELSE 0 :
    text_length \in {Len(Strip(block.text))}})

calculate_classification_factors(block, blks) ==
  [font_score         |-> calculate_font_score(block, blks),
   position_score     |-> calculate_position_score(block, blks),
   whitespace_score   |-> calculate_whitespace_score(block, blks),
   text_pattern_score |-> calculate_text_pattern_score(block),
   length_score       |-> calculate_length_score(block),
   font_size          |-> block.size,
   relative_size_rank |-> block.relative_size_rank,
   is_bold            |-> block.is_bold,
   text_length        |-> Len(Strip(block.text))]

calculate_heading_score(block, blks) ==
  Min(Tenths(calculate_font_score(block, blks), config.font_size_weight)
      + Tenths(calculate_position_score(block, blks), config.position_weight)
      + Tenths(calculate_whitespace_score(block, blks), config.whitespace_weight)
      + Tenths(calculate_text_pattern_score(block), config.text_length_weight)
      + Tenths(calculate_length_score(block), 1),
      Scale)

-----------------------------------------------------------------------------
(* HeadingClassifier: level, fragments, the merge passes.                  *)

\* re.match(r'^\d+\.', text)
MatchSectionNumber(text) ==
  \E a \in {SkipSet(text, 1, DigitSet)} : a > 1 /\ a <= Len(text) /\ text[a] = "."

\* a pattern that matches no text
MatchesNothing(text) == FALSE

\* re.match(r'^\d+\.\d+', text)
MatchSubsectionNumber(text) ==
  \E a \in {SkipSet(text, 1, DigitSet)} :
    a > 1 /\ a < Len(text) /\ text[a] = "." /\ text[a + 1] \in DigitSet

\* re.search(r'^\s*page\s*\d+\s*(of\s*\d+)?\s*$', text, re.IGNORECASE)
MatchPageFooter(t) ==
  \E text \in {Lower(t)} :
    \E a \in {SkipSet(text, 1, SpaceSet)} :
      /\ a + 3 <= Len(text)
      /\ SubSeq(text, a, a + 3) = <<"p","a","g","e">>
      /\ \E b \in {SkipSet(text, a + 4, SpaceSet)} :
           \E c \in {SkipSet(text, b, DigitSet)} :
             /\ c > b
             /\ \E d \in {SkipSet(text, c, SpaceSet)} :
                  \/ d > Len(text)
                  \/ /\ d + 1 <= Len(text)
                     /\ SubSeq(text, d, d + 1) = <<"o","f">>
                     /\ \E e \in {SkipSet(text, d + 2, SpaceSet)} :
                          \E f \in {SkipSet(text, e, DigitSet)} :
                            f > e /\ SkipSet(text, f, SpaceSet) > Len(text)

\* level scores without the bonuses and penalties
ConfidenceOnly(confidence_score, factors, block) ==
  [H1 |-> confidence_score, H2 |-> confidence_score, H3 |-> confidence_score]

\* the scores of the three levels in determine_heading_level
LevelScores(confidence_score, factors, block) ==
  The({
    [H1 |-> confidence_score
            + (IF factors.relative_size_rank = 0 THEN Frac(6, 10)
               ELSE IF factors.relative_size_rank = 1 THEN Frac(2, 10) ELSE 0)
            + (IF block.page_number = 0 /\ block.y1 > 700 THEN Frac(4, 10) ELSE 0)
            + (IF \E word \in {<<"i","n","t","r","o","d","u","c","t","i","o","n">>, <<"c","o","n","c","l","u","s","i","o","n">>, <<"a","b","s","t","r","a","c","t">>} :
                    Contains(text_lower, word)
               THEN Frac(2, 10) ELSE 0)
            + (IF MatchSubsectionNumber(text_lower) THEN -Frac(3, 10)
               ELSE IF MatchSectionNumber(text_lower) THEN Frac(15, 100) ELSE 0)
            - (IF MatchPageFooter(text_lower) THEN 2 * Scale ELSE 0),
     H2 |-> confidence_score
            + (IF factors.relative_size_rank = 1 THEN Frac(5, 10)
               ELSE IF factors.relative_size_rank = 2 THEN Frac(2, 10) ELSE 0)
            - (IF \E word \in {<<"i","n","t","r","o","d","u","c","t","i","o","n">>, <<"c","o","n","c","l","u","s","i","o","n">>, <<"a","b","s","t","r","a","c","t">>} :
                    Contains(text_lower, word)
               THEN Frac(1, 10) ELSE 0)
            + (IF MatchSubsectionNumber(text_lower) THEN Frac(3, 10)
               ELSE IF MatchSectionNumber(text_lower) THEN Frac(15, 100) ELSE 0)
            - (IF MatchPageFooter(text_lower) THEN 2 * Scale ELSE 0),
     H3 |-> confidence_score
            + (IF factors.relative_size_rank = 2 THEN Frac(5, 10)
               ELSE IF factors.relative_size_rank > 2 THEN Frac(2, 10) ELSE 0)
            + (IF MatchSubsectionNumber(text_lower) THEN Frac(2, 10) ELSE 0)
            - (IF MatchPageFooter(text_lower) THEN 2 * Scale ELSE 0)] :
    text_lower \in {Lower(block.text)}})

\* a determine_heading_level without the test for low scores
LevelWithoutBody(confidence_score, factors, block) ==
  The({
    IF s.H1 >= s.H2 /\ s.H1 >= s.H3 THEN "H1"
    ELSE IF s.H2 >= s.H3 THEN "H2"
    ELSE "H3" :
    s \in {LevelScores(confidence_score, factors, block)}})

\* the scores are exact: of two levels with the same score, max() returns the
\* first in the order H1, H2, H3
determine_heading_level(confidence_score, factors, block) ==
  The({
    IF Max(s.H1, Max(s.H2, s.H3)) < config.heading_confidence_threshold THEN "Body"
    ELSE IF s.H1 >= s.H2 /\ s.H1 >= s.H3 THEN "H1"
    ELSE IF s.H2 >= s.H3 THEN "H2"
    ELSE "H3" :
    s \in {LevelScores(confidence_score, factors, block)}})

is_potential_fragment(block, factors) ==
  \/ /\ Len(Strip(block.text)) <= 15
     /\ factors.font_score > Frac(15, 100)
     /\ (factors.position_score > Frac(5, 100) \/ factors.whitespace_score > Frac(1, 10))
  \/ /\ factors.font_size > 15
     /\ factors.relative_size_rank <= 3
     /\ Frac(2, 10) <= factors.font_score /\ factors.font_score < Frac(4, 10)

should_merge_heading_candidates(block1, block2) ==
  /\ block1.page_number = block2.page_number
  /\ block1.family = block2.family
  /\ Abs(block1.size - block2.size) < 1
  /\ block1.weight = block2.weight
  /\ block2.x0 - block1.x1 <= 50
  /\ 10 * Abs((block1.y0 + block1.y1) - (block2.y0 + block2.y1))
       <= 6 * Max(block1.height, block2.height)
  /\ (Len(Strip(block1.text)) <= 5 \/ Len(Strip(block2.text)) <= 5)

are_same_line_candidates(block1, block2) ==
  /\ block1.page_number = block2.page_number
  /\ block1.family = block2.family
  /\ Abs(block1.size - block2.size) = 0
  /\ block1.weight = block2.weight
  /\ block1.style = block2.style
  /\ 20 * Abs(block1.y1 - block2.y1) < block1.height + block2.height
  /\ -10 <= block2.x0 - block1.x1
  /\ block2.x0 - block1.x1 <= 100

\* the merge predicate of a pass: _merge_same_line_candidates when sameLine,
\* _merge_heading_fragments otherwise
MergePredicate(block1, block2, sameLine) ==
  IF sameLine THEN are_same_line_candidates(block1, block2)
  ELSE should_merge_heading_candidates(block1, block2)

\* an inner loop that takes the next candidate, if there is one, unseen
PairEnd(sorted, blks, i, j, sameLine) == Min(j, Len(sorted))

\* the inner while loop: the last index of the group that begins at i, when
\* the candidates up to j - 1 are in it
RECURSIVE GroupEnd(_, _, _, _, _)
GroupEnd(sorted, blks, i, j, sameLine) ==
  IF j <= Len(sorted)
     /\ MergePredicate(blks[sorted[i].blk], blks[sorted[j].blk], sameLine)
  THEN GroupEnd(sorted, blks, i, j + 1, sameLine)
  ELSE j - 1

\* the outer while loop: the groups <<first, last>> from index i on
RECURSIVE MergeGroups(_, _, _, _)
MergeGroups(sorted, blks, i, sameLine) ==
  IF i > Len(sorted) THEN <<>>
  ELSE The({<< <<i, j>> >> \o MergeGroups(sorted, blks, j + 1, sameLine) :
            j \in {GroupEnd(sorted, blks, i, i + 1, sameLine)}})

\* combined_text_parts joined, from the i-th candidate of the group on
RECURSIVE CombinedText(_, _, _, _)
CombinedText(group, blks, i, sameLine) ==
  IF i > Len(group) THEN <<>>
  ELSE The({
         (IF text = <<>> THEN <<>>
          ELSE (IF i > 1 /\ (sameLine \/ blks[group[i].blk].x0 - blks[group[i - 1].blk].x1 > 5)
                THEN <<" ">> ELSE <<>>) \o text)
         \o CombinedText(group, blks, i + 1, sameLine) :
         text \in {Strip(blks[group[i].blk].text)}})

\* a group whose first member is returned as it is
FirstOfGroup(members, blks, sameLine) ==
  [candidate |-> members[1], block |-> blks[members[1].blk]]

\* _merge_candidate_group and _merge_same_line_group: the group sorted by x0,
\* the base candidate with the highest confidence, and the base block as it
\* is after the assignments to its text and position
MergeGroup(members, blks, sameLine) ==
  The({
    [candidate |-> [group[1] EXCEPT !.confidence_score =
                      SetMax({group[k].confidence_score : k \in 1..Len(group)})],
     block |->
       The({[blks[group[1].blk] EXCEPT
               !.text = CombinedText(group, blks, 1, sameLine),
               !.x0 = min_x0, !.y0 = min_y0, !.x1 = max_x1, !.y1 = max_y1,
               !.width = max_x1 - min_x0, !.height = max_y1 - min_y0] :
            min_x0 \in {SetMin({blks[group[k].blk].x0 : k \in 1..Len(group)})},
            min_y0 \in {SetMin({blks[group[k].blk].y0 : k \in 1..Len(group)})},
            max_x1 \in {SetMax({blks[group[k].blk].x1 : k \in 1..Len(group)})},
            max_y1 \in {SetMax({blks[group[k].blk].y1 : k \in 1..Len(group)})}})] :
    group \in {StableSort(members, [k \in 1..Len(members) |-> <<blks[members[k].blk].x0>>])}})

\* sorted_candidates: by (page, y1, x0)
SortCandidates(cands, blks) ==
  StableSort(cands,
             [k \in 1..Len(cands) |->
                <<blks[cands[k].blk].page_number,
                  blks[cands[k].blk].y1,
                  blks[cands[k].blk].x0>>])

\* one merge pass over the candidates: the new candidate list and the
\* blocks, the base block of every merged group being changed in place
MergePass(cands, blks, sameLine) ==
  IF cands = <<>> THEN [candidates |-> cands, blocks |-> blks]
  ELSE The({The({The({
         [candidates |-> [g \in 1..Len(groups) |->
                            IF groups[g][2] > groups[g][1] THEN merged[g].candidate
                            ELSE sorted[groups[g][1]]],
          blocks |-> [b \in 1..Len(blks) |->
                        IF \E g \in 1..Len(groups) :
                             groups[g][2] > groups[g][1] /\ merged[g].candidate.blk = b
                        THEN merged[CHOOSE g \in 1..Len(groups) :
                                      groups[g][2] > groups[g][1]
                                      /\ merged[g].candidate.blk = b].block
                        ELSE blks[b]]] :
         merged \in {[g \in 1..Len(groups) |->
                        MergeGroup(SubSeq(sorted, groups[g][1], groups[g][2]),
                                   blks, sameLine)]}}) :
       groups \in {MergeGroups(sorted, blks, 1, sameLine)}}) :
     sorted \in {SortCandidates(cands, blks)}})

\* _merge_heading_fragments, then _merge_same_line_candidates
MergePasses(cands, blks) ==
  The({MergePass(first.candidates, first.blocks, TRUE) :
       first \in {MergePass(cands, blks, FALSE)}})

\* the loop of classify_text_blocks over one block: whether it is accepted,
\* whether as a potential fragment, and the candidate
ClassifyBlock(b, blks) ==
  The({The({
    [accepted |-> confidence_score >=
                    (IF is_potential_fragment(blks[b], factors)
                     THEN config.fragment_merge_threshold
                     ELSE config.heading_confidence_threshold),
     fragment |-> is_potential_fragment(blks[b], factors),
     candidate |-> [blk |-> b, confidence_score |-> confidence_score,
                    classification_factors |-> factors,
                    suggested_level |->
                      determine_heading_level(confidence_score, factors, blks[b])]] :
    confidence_score \in {calculate_heading_score(blks[b], blks)}}) :
    factors \in {calculate_classification_factors(blks[b], blks)}})

\* classify_text_blocks: the candidates, and the blocks as the font analysis
\* and the merge passes leave them
classify_text_blocks(text_blocks) ==
  IF text_blocks = <<>> THEN [candidates |-> <<>>, blocks |-> text_blocks]
  ELSE The({The({The({
         [candidates |-> StableSort(merged.candidates,
                                    [k \in 1..Len(merged.candidates) |->
                                       <<-merged.candidates[k].confidence_score>>]),
          blocks |-> merged.blocks] :
         merged \in {MergePasses(
                       [k \in 1..Len(SelectSeq(classified,
                                               LAMBDA r : r.accepted /\ ~r.fragment)) |->
                          SelectSeq(classified,
                                    LAMBDA r : r.accepted /\ ~r.fragment)[k].candidate]
                       \o [k \in 1..Len(SelectSeq(classified,
                                                  LAMBDA r : r.accepted /\ r.fragment)) |->
                             SelectSeq(classified,
                                       LAMBDA r : r.accepted /\ r.fragment)[k].candidate],
                       blks)}}) :
       classified \in {[b \in 1..Len(blks) |-> ClassifyBlock(b, blks)]}}) :
     blks \in {analyze_font_relationships(text_blocks)}})
-----------------------------------------------------------------------------
(* TitleDetector (services/title_detector.py).  A title candidate is a     *)
(* pair <<text, score>>; None and the empty string are both <<>>.          *)

\* a validate_title without the length limit
UncutTitle(t) ==
  IF t = <<>> THEN UntitledDocument
  ELSE The({IF s = <<>> THEN UntitledDocument ELSE s : s \in {CollapseSpaces(Strip(t))}})

validate_title(t) ==
  IF t = <<>> THEN UntitledDocument
  ELSE The({IF cut = <<>> THEN UntitledDocument ELSE cut :
            cut \in {The({IF Len(s) > 200 THEN Truncate(s, 200) ELSE s :
                          s \in {CollapseSpaces(Strip(t))}})}})

\* re.search(r'\b(the|and|of|in|to|for|with|on|at|by|from)\b', text)
HasBodyWord(text) ==
  \E word \in {<<"t","h","e">>, <<"a","n","d">>, <<"o","f">>, <<"i","n">>, <<"t","o">>, <<"f","o","r">>, <<"w","i","t","h">>, <<"o","n">>,
               <<"a","t">>, <<"b","y">>, <<"f","r","o","m">>} :
    \E i \in 1..(Len(text) - Len(word) + 1) :
      /\ SubSeq(text, i, i + Len(word) - 1) = word
      /\ (i = 1 \/ ~(IsAlnum(text[i - 1]) \/ text[i - 1] = "_"))
      /\ (i + Len(word) > Len(text)
          \/ ~(IsAlnum(text[i + Len(word)]) \/ text[i + Len(word)] = "_"))

calculate_title_score(block, page_blocks) ==
  The({
    Max(0, Min(
      (IF page_blocks # <<>> /\ max_size > 0
       THEN (block.size * Frac(4, 10)) \div max_size ELSE 0)
      + (IF page_blocks # <<>> /\ max_y > min_y
         THEN ((block.y1 - min_y) * Frac(3, 10)) \div (max_y - min_y) ELSE 0)
      + (IF 10 <= Len(text) /\ Len(text) <= 100 THEN Frac(2, 10)
         ELSE IF 5 <= Len(text) /\ Len(text) <= 150 THEN Frac(1, 10) ELSE 0)
      + (IF block.is_bold \/ block.weight = "bold" THEN Frac(1, 10) ELSE 0)
      + (IF IsTitleStr(text) THEN Frac(1, 10)
         ELSE IF IsUpperStr(text) THEN Frac(5, 100) ELSE 0)
      - (IF EndsWith(text, <<".">>) /\ Len(text) > 50 THEN Frac(2, 10) ELSE 0)
      - (IF Len(text) > 80 /\ HasBodyWord(Lower(text)) THEN Frac(1, 10) ELSE 0)
      - (IF MatchPageFooter(text) THEN Frac(8, 10) ELSE 0),
      Scale)) :
    text \in {Strip(block.text)},
    max_size \in {SetMax({0} \cup {page_blocks[k].size : k \in 1..Len(page_blocks)})},
    max_y \in {SetMax({0} \cup {page_blocks[k].y1 : k \in 1..Len(page_blocks)})},
    min_y \in {SetMin({100000} \cup {page_blocks[k].y1 : k \in 1..Len(page_blocks)})}})

\* the candidates sorted by (confidence_score, y1), reverse=True
SortByConfidence(cands, blks) ==
  StableSort(cands, [k \in 1..Len(cands) |->
                       <<-cands[k].confidence_score, -blks[cands[k].blk].y1>>])

\* the pairs with their duplicates
KeepsDuplicates(pairs) == pairs

\* the pairs whose text does not occur earlier in the list
FirstOccurrences(pairs) ==
  The({KeepIndices(p, {k \in 1..Len(p) : \A i \in 1..(k - 1) : p[i][1] # p[k][1]}) :
       p \in {pairs}})

find_title_candidates_from_headings(heading_candidates, blks) ==
  FirstOccurrences(
    The({IF h1 = <<>> THEN <<>>
         ELSE << <<Strip(CandText(h1[1], blks)),
                   Min(Scale, h1[1].confidence_score + Frac(3, 10))>> >> :
         h1 \in {SortByConfidence(
                   SelectSeq(heading_candidates,
                             LAMBDA c : /\ c.suggested_level = "H1"
                                        /\ CandPage(c, blks) = 0
                                        /\ c.confidence_score
                                             >= config.title_confidence_threshold),
                   blks)}})
    \o The({[k \in 1..Len(fp) |->
               <<Strip(CandText(fp[k], blks)), Tenths(fp[k].confidence_score, 8)>>] :
            fp \in {SortByConfidence(
                      SelectSeq(heading_candidates,
                                LAMBDA c : /\ CandPage(c, blks) = 0
                                           /\ c.confidence_score
                                                >= config.title_confidence_threshold),
                      blks)}}))

\* the blocks of the first page sorted by y1, reverse=True
TopToBottom(blks) ==
  The({StableSort(fp, [k \in 1..Len(fp) |-> <<-fp[k].y1>>]) : fp \in {PageBlocks(blks, 0)}})

\* " ".join of the stripped texts of the blocks first..last of a list
RECURSIVE JoinTexts(_, _, _)
JoinTexts(list, first, last) ==
  IF first > last THEN <<>>
  ELSE IF first = last THEN Strip(list[first].text)
  ELSE Strip(list[first].text) \o <<" ">> \o JoinTexts(list, first + 1, last)

\* starts[k] tells whether the k-th of the largest-font blocks begins a group;
\* kept are the first indices of the groups whose merged text passes the filter
find_title_candidates_from_font_analysis(blks) ==
  IF PageBlocks(blks, 0) = <<>> THEN <<>>
  ELSE The({The({The({
    [g \in 1..Len(kept) |->
       <<JoinTexts(largest, kept[g], FindSet(starts, kept[g] + 1, {TRUE}) - 1),
         IF FindSet(starts, kept[g] + 1, {TRUE}) - 1 > kept[g]
         THEN Min(Scale, calculate_title_score(largest[kept[g]], PageBlocks(blks, 0))
                         + Frac(25, 100))
         ELSE calculate_title_score(largest[kept[g]], PageBlocks(blks, 0))>>] :
    kept \in {SelectSeq([k \in 1..Len(largest) |-> k],
                LAMBDA k :
                  /\ starts[k]
                  /\ \E merged_text \in
                          {JoinTexts(largest, k, FindSet(starts, k + 1, {TRUE}) - 1)} :
                       /\ Len(merged_text) >= 3 /\ Len(merged_text) <= 200
                       /\ ~(EndsWith(merged_text, <<".">>) /\ Len(merged_text) > 100))}}) :
    starts \in {[k \in 1..Len(largest) |->
                   \/ k = 1
                   \/ ~(/\ 0 < largest[k].y1 - largest[k - 1].y1
                        /\ largest[k].y1 - largest[k - 1].y1 < largest[k - 1].size * 2)]}}) :
    largest \in {The({StableSort(l, [k \in 1..Len(l) |-> <<l[k].y1>>]) :
                      l \in {SelectSeq(PageBlocks(blks, 0),
                               LAMBDA b : b.size = SetMax(FontSizes(PageBlocks(blks, 0))))}})}})

find_title_candidates_from_placement(blks) ==
  IF PageBlocks(blks, 0) = <<>> THEN <<>>
  ELSE The({The({
    [k \in 1..Len(top) |->
       <<Strip(top[k].text), Tenths(calculate_title_score(top[k], first_page_blocks), 9)>>] :
    top \in {SelectSeq(first_page_blocks,
               LAMBDA b :
                 /\ 5 * b.y1 >= 4 * SetMax({first_page_blocks[k].y1 :
                                              k \in 1..Len(first_page_blocks)})
                                + SetMin({first_page_blocks[k].y1 :
                                            k \in 1..Len(first_page_blocks)})
                 /\ Len(Strip(b.text)) >= 3 /\ Len(Strip(b.text)) <= 200
                 /\ calculate_title_score(b, first_page_blocks) > Frac(3, 10))}}) :
    first_page_blocks \in {TopToBottom(blks)}})

get_fallback_title(blks) ==
  The({IF ok = <<>> THEN UntitledDocument ELSE Strip(ok[1].text) :
       ok \in {SelectSeq(TopToBottom(blks),
                         LAMBDA b : 5 <= Len(Strip(b.text)) /\ Len(Strip(b.text)) <= 150)}})

\* the reordering of pattern 1 and pattern 2: a text that begins with the two
\* words first, second gets them moved to the end, written as ending
ReorderTitle(text, first, second, ending) ==
  The({
    IF /\ StartsWith(Lower(text), first \o <<" ">> \o second)
       /\ Len(parts) >= 2 /\ Lower(parts[1]) = first /\ Lower(parts[2]) = second
       /\ Strip(JoinFrom(parts, 3)) # <<>>
    THEN Strip(JoinFrom(parts, 3)) \o <<" ">> \o ending
    ELSE text :
    parts \in {Split(text)}})

IsClimateTitle(text_lower) ==
  /\ Contains(text_lower, <<"c","l","i","m","a","t","e"," ","c","h","a","n","g","e">>) /\ Contains(text_lower, <<"r","o","l","e">>)
  /\ Contains(text_lower, <<"r","e","n","e","w","a","b","l","e">>) /\ Contains(text_lower, <<"c","o","m","b","a","t","i","n","g">>)

IsEducationTitle(text_lower) ==
  /\ Contains(text_lower, <<"e","d","u","c","a","t","i","o","n">>) /\ Contains(text_lower, <<"i","m","p","o","r","t","a","n","c","e">>)
  /\ Contains(text_lower, <<"m","e","n","t","a","l"," ","h","e","a","l","t","h">>) /\ Contains(text_lower, <<"a","w","a","r","e","n","e","s","s">>)

TitleKeywords ==
  {<<"r","o","l","e">>, <<"r","e","n","e","w","a","b","l","e">>, <<"e","n","e","r","g","y">>, <<"c","o","m","b","a","t","i","n","g">>, <<"c","l","i","m","a","t","e">>, <<"c","h","a","n","g","e">>}

could_be_title_fragments(candidate1, candidate2, blks) ==
  \E b1 \in {blks[candidate1.blk]}, b2 \in {blks[candidate2.blk]} :
    /\ b1.page_number = b2.page_number
    /\ Abs(b1.y1 - b2.y1) <= Max(b1.height, b2.height) * 2
    /\ Abs(b1.size - b2.size) < 2
    /\ b1.family = b2.family
    /\ b1.weight = b2.weight
    /\ candidate1.confidence_score >= Frac(4, 10)
    /\ candidate2.confidence_score >= Frac(4, 10)

\* _merge_title_fragments and _merge_three_title_fragments: the texts of the
\* candidates, top first, joined and cleaned; <<>> when too short
merge_title_fragments(cands, blks, min_length) ==
  The({IF Len(merged) > min_length THEN merged ELSE <<>> :
       merged \in {The({CollapseSpaces(Strip(JoinTexts(
                          [k \in 1..Len(ordered) |-> blks[ordered[k].blk]], 1, Len(ordered)))) :
                        ordered \in {IF Len(cands) = 2
                                        /\ blks[cands[1].blk].y1 <= blks[cands[2].blk].y1
                                     THEN <<cands[2], cands[1]>>
                                     ELSE StableSort(cands,
                                            [k \in 1..Len(cands) |->
                                               <<-blks[cands[k].blk].y1>>])}})}})

is_likely_complete_title(t) ==
  /\ Len(t) >= 10 /\ Len(t) <= 200
  /\ ~(EndsWith(t, <<".">>) /\ Len(t) > 100)
  /\ WordCount(t) >= 3

\* the merged titles of the runs of n consecutive first-page candidates that
\* pass the checks of the last two loops, in order
MergedTitles(fp, blks, n, min_length) ==
  SelectSeq([i \in 1..Max(0, Len(fp) - n + 1) |->
               IF \A k \in i..(i + n - 2) : could_be_title_fragments(fp[k], fp[k + 1], blks)
               THEN merge_title_fragments(SubSeq(fp, i, i + n - 1), blks, min_length)
               ELSE <<>>],
            LAMBDA t : t # <<>> /\ is_likely_complete_title(t))

reconstruct_fragmented_title(heading_candidates, blks) ==
  The({
    IF Len(fp) < 2 THEN <<>>
    ELSE The({
      IF reordered # <<>>
      THEN The({IF IsClimateTitle(Lower(text))
                THEN ReorderTitle(text, <<"c","l","i","m","a","t","e">>, <<"c","h","a","n","g","e">>, <<"C","l","i","m","a","t","e"," ","C","h","a","n","g","e">>)
                ELSE ReorderTitle(text, <<"i","n">>, <<"e","d","u","c","a","t","i","o","n">>, <<"i","n"," ","E","d","u","c","a","t","i","o","n">>) :
                text \in {Strip(CandText(reordered[1], blks))}})
      ELSE The({
        IF complete # <<>> THEN Strip(CandText(complete[1], blks))
        ELSE The({
          IF two # <<>> THEN two[1]
          ELSE The({IF three # <<>> THEN three[1] ELSE <<>> :
                    three \in {MergedTitles(fp, blks, 3, 15)}}) :
          two \in {MergedTitles(fp, blks, 2, 10)}}) :
        complete \in {SelectSeq(fp,
                        LAMBDA c :
                          /\ Cardinality({w \in TitleKeywords :
                                            Contains(Lower(CandText(c, blks)), w)}) >= 3
                          /\ Len(CandText(c, blks)) > 20)}}) :
      reordered \in {SelectSeq(fp,
                       LAMBDA c : \E text_lower \in {Lower(Strip(CandText(c, blks)))} :
                                    IsClimateTitle(text_lower) \/ IsEducationTitle(text_lower))}}) :
    fp \in {The({StableSort(f, [k \in 1..Len(f) |-> <<-blks[f[k].blk].y1>>]) :
                 f \in {SelectSeq(heading_candidates, LAMBDA c : CandPage(c, blks) = 0)}})}})

\* the consensus rule: more than one unique candidate, the best one below the
\* consensus threshold, and the top 3 candidates with the same text
ConsensusApplies(unique_candidates) ==
  /\ Len(unique_candidates) > 1
  /\ unique_candidates[1][2] < config.title_consensus_threshold
  /\ \A k \in 1..Min(3, Len(unique_candidates)) :
        unique_candidates[k][1] = unique_candidates[1][1]

\* the decision of detect_title on the sorted unique candidates
ChooseTitle(unique_candidates, fallback_title) ==
  IF ConsensusApplies(unique_candidates)
  THEN validate_title(unique_candidates[1][1])
  ELSE IF /\ unique_candidates # <<>>
          /\ unique_candidates[1][2] >= config.title_confidence_threshold
  THEN validate_title(unique_candidates[1][1])
  ELSE IF /\ Len(unique_candidates) > 1
          /\ 2 * unique_candidates[1][2] > 3 * unique_candidates[2][2]
  THEN validate_title(unique_candidates[1][1])
  ELSE validate_title(fallback_title)

\* all_candidates without duplicates, sorted by score, reverse=True
TitleCandidates(blks, heading_candidates) ==
  The({StableSort(u, [k \in 1..Len(u) |-> <<-u[k][2]>>]) :
       u \in {FirstOccurrences(
                (IF heading_candidates # <<>>
                 THEN find_title_candidates_from_headings(heading_candidates, blks)
                 ELSE <<>>)
                \o find_title_candidates_from_font_analysis(blks)
                \o find_title_candidates_from_placement(blks)
                \o << <<get_fallback_title(blks), Frac(2, 10)>> >>)}})

detect_title(text_blocks, heading_candidates) ==
  IF text_blocks = <<>> THEN UntitledDocument
  ELSE The({
    IF reconstructed_title # <<>> THEN validate_title(reconstructed_title)
    ELSE The({ChooseTitle(unique_candidates, get_fallback_title(text_blocks)) :
              unique_candidates \in {TitleCandidates(text_blocks, heading_candidates)}}) :
    reconstructed_title \in {reconstruct_fragmented_title(heading_candidates, text_blocks)}})
-----------------------------------------------------------------------------
(* TOCExtractor (services/toc_extractor.py).                               *)

\* the page of the first block whose text contains "table of contents", or -1
TocPage(blks) ==
  The({IF marked = <<>> THEN -1 ELSE marked[1].page_number :
       marked \in {SelectSeq(blks, LAMBDA b :
                     Contains(Lower(Strip(b.text)), <<"t","a","b","l","e"," ","o","f"," ","c","o","n","t","e","n","t","s">>))}})

\* the index where the match of \.{3,}\s*(\d+)$ that ends the line begins,
\* the heading part (.+?) being as short as it can and beginning after index
\* p; 0 when there is no match
LeaderStart(txt, p) ==
  The({The({
    IF digits = Len(txt) THEN 0
    ELSE The({IF leader + 3 <= dots + 1 THEN leader ELSE 0 :
              leader \in {Max(SkipBack(txt, dots, {"."}) + 1, p + 2)}}) :
    dots \in {SkipBack(txt, digits, SpaceSet)}}) :
    digits \in {SkipBack(txt, Len(txt), DigitSet)}})

\* the ends of the matches of ((?:[0-9]+[.])+\s*) at the start of the line
NumberPartEnds(txt) ==
  UNION {e..(SkipSet(txt, e + 1, SpaceSet) - 1) :
         e \in {i \in 1..Len(txt) :
                  /\ txt[i] = "." /\ txt[1] \in DigitSet
                  /\ \A j \in 1..i : txt[j] \in DigitSet \cup {"."}
                  /\ \A j \in 2..i : ~(txt[j] = "." /\ txt[j - 1] = ".")}}

\* the end of group 1 in the match of the first pattern: the longest number
\* part that leaves a match for the rest; 0 when the group takes no part
NumberPartEnd(txt) ==
  SetMax({0} \cup {p \in NumberPartEnds(txt) : LeaderStart(txt, p) > 0})

detect_level(numpart) ==
  IF numpart = <<>> THEN "H1"
  ELSE IF CountChar(numpart, ".") > 1 THEN "H2"
  ELSE IF CountChar(numpart, ".") = 1 THEN "H2"
  ELSE "H1"

\* the line matches the first pattern (the second one matches no other line)
MatchTocLine(txt) == LeaderStart(txt, 0) > 0

\* level, heading_txt and page_num as the loop computes them for a line
\* that matches
TocHeading(txt) ==
  The({
    [level |-> detect_level(SubSeq(txt, 1, p)),
     text  |-> Strip(SubSeq(txt, p + 1, LeaderStart(txt, p) - 1)),
     page  |-> ToInt(SubSeq(txt, SkipBack(txt, Len(txt), DigitSet) + 1, Len(txt)))] :
    p \in {NumberPartEnd(txt)}})

\* the lines of the TOC pages that match, in order
TocLines(blks) ==
  The({SelectSeq(blks, LAMBDA b : /\ toc_page >= 0
                                  /\ b.page_number \in {toc_page, toc_page + 1}
                                  /\ MatchTocLine(Strip(b.text))) :
       toc_page \in {TocPage(blks)}})

\* extract_toc_headings: None when there is no TOC page or no line matches;
\* for the first line that matches, HeadingCandidate(text_block=block,
\* level=level, page=page_num) is called, and the constructor, which has no
\* level and no page parameter, raises TypeError
extract_toc_headings(blks) ==
  IF TocLines(blks) = <<>> THEN [raised |-> FALSE, headings |-> <<>>]
  ELSE [raised |-> TRUE, headings |-> <<>>]

-----------------------------------------------------------------------------
(* TextExtractor (services/text_extractor.py): the merge of a group of     *)
(* spans into one block.                                                    *)

\* the spans sorted by (-y1, x0), in place
SortSpans(spans) ==
  StableSort(spans, [k \in 1..Len(spans) |-> <<-spans[k].y1, spans[k].x0>>])

\* what is appended to texts before the text of the k-th span: on the same
\* line (vertical_diff < avg_line_height * 0.1) a space for a gap of more than
\* 1 point, on another line a space unless the previous text ends with a
\* hyphen
SpanSeparator(spans, k) ==
  IF k = 1 THEN <<>>
  ELSE IF 20 * Abs(spans[k - 1].y1 - spans[k].y1) < spans[k - 1].height + spans[k].height
  THEN (IF spans[k].x0 - spans[k - 1].x1 > 1 THEN <<" ">> ELSE <<>>)
  ELSE (IF EndsWith(Strip(spans[k - 1].text), <<"-">>) THEN <<>> ELSE <<" ">>)

\* "".join(texts) for the first k spans
RECURSIVE JoinSpans(_, _)
JoinSpans(spans, k) ==
  IF k = 0 THEN <<>>
  ELSE JoinSpans(spans, k - 1) \o SpanSeparator(spans, k) \o spans[k].text

merge_span_group(group) ==
  IF Len(group) = 1 THEN group[1]
  ELSE The({
    [spans[1] EXCEPT
       !.text = Strip(JoinSpans(spans, Len(spans))),
       !.x0 = SetMin({spans[k].x0 : k \in 1..Len(spans)}),
       !.y0 = SetMin({spans[k].y0 : k \in 1..Len(spans)}),
       !.x1 = SetMax({spans[k].x1 : k \in 1..Len(spans)}),
       !.y1 = SetMax({spans[k].y1 : k \in 1..Len(spans)}),
       !.width = SetMax({spans[k].x1 : k \in 1..Len(spans)})
                   - SetMin({spans[k].x0 : k \in 1..Len(spans)}),
       !.height = SetMax({spans[k].y1 : k \in 1..Len(spans)})
                    - SetMin({spans[k].y0 : k \in 1..Len(spans)})] :
    spans \in {SortSpans(group)}})

-----------------------------------------------------------------------------
(* The steps of the pipeline (main.py, process_single_file).               *)

NoOutput == [title |-> <<>>, outline |-> <<>>]

\* main before its loop over pdf_files: no file counted, nothing returned
NoTally ==
  [pdf_files |-> 0, successful_count |-> 0, failed_count |-> 0, returned |-> <<>>]

\* how many times the merge passes are applied to one candidate list
MaxRuns == 2

\* the stem of the input file's name
FileStem == <<"d","o","c">>

\* the branch for a document without text blocks
EmptyDocument ==
  /\ pc = "classify"
  /\ blocks = <<>>
  /\ output' = [title |-> <<"E","m","p","t","y"," ","D","o","c","u","m","e","n","t"," ","-"," ">> \o FileStem, outline |-> <<>>]
  /\ pc' = "done"
  /\ UNCHANGED <<tally, document, blocks, candidates, scores, title, outline, tocResult,
                 error, runs>>

\* heading_classifier.classify_text_blocks(text_blocks), for any block list;
\* scores records what its loop computes for every block: the score, the
\* factors, the fragment flag, whether a candidate is created for it, and
\* the level determine_heading_level gives it
ClassifyTextBlocks ==
  /\ pc = "classify"
  /\ \E r \in {classify_text_blocks(blocks)}, blks \in {analyze_font_relationships(blocks)} :
        /\ candidates' = r.candidates
        /\ blocks' = r.blocks
        /\ \E classified \in {[b \in 1..Len(blks) |-> ClassifyBlock(b, blks)]} :
              scores' = [b \in 1..Len(blks) |->
                           [confidence_score |-> classified[b].candidate.confidence_score,
                            factors |-> classified[b].candidate.classification_factors,
                            is_potential_fragment |-> classified[b].fragment,
                            accepted |-> classified[b].accepted,
                            suggested_level |-> classified[b].candidate.suggested_level]]
  /\ pc' = "title"
  /\ UNCHANGED <<tally, document, title, outline, output, tocResult, error, runs>>

\* Step 2: process_single_file calls it when there are text blocks
Classify ==
  /\ blocks # <<>>
  /\ ClassifyTextBlocks

\* Step 3: title_detector.detect_title(text_blocks, heading_candidates)
DetectTitle ==
  /\ pc = "title"
  /\ title' = detect_title(blocks, candidates)
  /\ pc' = "build"
  /\ UNCHANGED <<tally, document, blocks, candidates, scores, outline, output, tocResult,
                 error, runs>>

\* Step 4: hierarchy_builder.build_outline(heading_candidates, document_title)
BuildOutline ==
  /\ pc = "build"
  /\ \E r \in {build_outline(candidates, blocks, title)} :
        /\ candidates' = r.headings
        /\ IF r.raised
           THEN /\ error' = "ValueError"
                /\ pc' = "failed"
                /\ UNCHANGED <<tally, title, outline>>
           ELSE /\ title' = r.doc.title
                /\ outline' = r.doc.outline
                /\ pc' = "json"
                /\ error' = error
  /\ UNCHANGED <<tally, document, blocks, scores, output, tocResult, runs>>

\* Step 5: json_generator.generate_output(document_outline)
GenerateOutput ==
  /\ pc = "json"
  /\ \E r \in {generate_output([title |-> title, outline |-> outline])} :
        IF r.raised
        THEN /\ error' = "JSONGenerationError"
             /\ pc' = "failed"
             /\ output' = output
        ELSE /\ output' = r.output
             /\ pc' = "done"
             /\ error' = error
  /\ UNCHANGED <<tally, document, blocks, candidates, scores, title, outline, tocResult, runs>>

\* the except branch of process_single_file: the error output is saved
SaveErrorOutput ==
  /\ pc = "failed"
  /\ output' = [title |-> <<"E","r","r","o","r"," ","P","r","o","c","e","s","s","i","n","g"," ","-"," ">> \o FileStem, outline |-> <<>>]
  /\ pc' = "reported"
  /\ UNCHANGED <<tally, document, blocks, candidates, scores, title, outline, tocResult,
                 error, runs>>

\* HeadingClassifier._merge_heading_fragments followed by
\* _merge_same_line_candidates, applied to the current candidate list
MergeFragments ==
  /\ pc = "merge"
  /\ runs < MaxRuns
  /\ \E r \in {MergePasses(candidates, blocks)} :
        /\ candidates' = r.candidates
        /\ blocks' = r.blocks
  /\ runs' = runs + 1
  /\ UNCHANGED <<tally, document, scores, title, outline, output, tocResult, error, pc>>

\* TOCExtractor.extract_toc_headings(blocks)
ExtractTocHeadings ==
  /\ pc = "toc"
  /\ \E r \in {extract_toc_headings(blocks)} :
        /\ tocResult' = r
        /\ error' = IF r.raised THEN "TypeError" ELSE error
        /\ pc' = IF r.raised THEN "failed" ELSE "done"
  /\ UNCHANGED <<tally, document, blocks, candidates, scores, title, outline, output, runs>>

-----------------------------------------------------------------------------
(* The documents the pipeline is run on.                                   *)

TxtIntroduction == <<"1","."," ","I","n","t","r","o","d","u","c","t","i","o","n">>

TxtSubsection == <<"1",".","1"," ","B","a","c","k","g","r","o","u","n","d">>

TxtParagraph ==
  <<"S","o","m","e"," ","l","o","n","g"," ","b","o","d","y"," ","p","a","r","a","g","r","a","p","h"," ","w","i","t","h"," ","m","a","n","y"," ","c","o","m","m","o","n"," ","w","o","r","d","s"," ","t","h","a","t"," ","g","o","e","s"," ","o","n"," ","a","n","d"," ","o","n"," ","a","b","o","u","t"," ","t","h","e"," ","b","a","c","k","g","r","o","u","n","d"," ","o","f"," ","t","h","e"," ","p","r","o","j","e","c","t",".">>

\* 159 characters, no capital, one period at the end
TxtLongParagraph ==
  <<"t","h","e"," ","r","e","s","u","l","t","s"," ","o","f"," ","t","h","e"," ","s","u","r","v","e","y"," ","a","r","e"," ","i","n"," ","t","h","e"," ","t","a","b","l","e"," ","a","n","d"," ","t","h","e"," ","f","i","g","u","r","e","s"," ","o","f"," ","t","h","e"," ","r","e","p","o","r","t",","," ","a","n","d"," ","t","h","e"," ","m","e","t","h","o","d"," ","i","s"," ","i","n"," ","t","h","e"," ","l","a","s","t"," ","p","a","r","t"," ","o","f"," ","t","h","e"," ","r","e","p","o","r","t"," ","f","o","r"," ","t","h","e"," ","r","e","a","d","e","r","s"," ","o","f"," ","t","h","e"," ","b","o","a","r","d"," ","t","o"," ","s","e","e",".">>

TxtClimate == <<"C","l","i","m","a","t","e"," ","C","h","a","n","g","e">>

TxtRole == <<"T","h","e"," ","R","o","l","e"," ","o","f"," ","R","e","n","e","w","a","b","l","e"," ","E","n","e","r","g","y"," ","i","n"," ","C","o","m","b","a","t","i","n","g">>

TxtClimateRole == <<"C","l","i","m","a","t","e"," ","C","h","a","n","g","e"," ","T","h","e"," ","R","o","l","e"," ","o","f"," ","R","e","n","e","w","a","b","l","e"," ","E","n","e","r","g","y"," ","i","n"," ","C","o","m","b","a","t","i","n","g">>

TxtTableOfContents == <<"T","a","b","l","e"," ","o","f"," ","C","o","n","t","e","n","t","s">>

TxtRevisionLine == <<"R","e","v","i","s","i","o","n"," ","H","i","s","t","o","r","y"," ",".",".",".",".",".",".",".",".",".",".","."," ","3">>

TxtRevisionHistory == <<"R","e","v","i","s","i","o","n"," ","H","i","s","t","o","r","y">>

TxtScopeLine == <<"1","."," ","S","c","o","p","e"," ",".",".","."," ","1","2">>

TxtSummary == <<"S","u","m","m","a","r","y"," ","o","f"," ","R","e","s","u","l","t","s">>

\* 219 characters
TxtRoleLong ==
  <<"T","h","e"," ","R","o","l","e"," ","o","f"," ","R","e","n","e","w","a","b","l","e"," ","E","n","e","r","g","y"," ","i","n"," ","t","h","e"," ","C","l","i","m","a","t","e"," ","T","h","e"," ","R","o","l","e"," ","o","f"," ","R","e","n","e","w","a","b","l","e"," ","E","n","e","r","g","y"," ","i","n"," ","t","h","e"," ","C","l","i","m","a","t","e"," ","T","h","e"," ","R","o","l","e"," ","o","f"," ","R","e","n","e","w","a","b","l","e"," ","E","n","e","r","g","y"," ","i","n"," ","t","h","e"," ","C","l","i","m","a","t","e"," ","T","h","e"," ","R","o","l","e"," ","o","f"," ","R","e","n","e","w","a","b","l","e"," ","E","n","e","r","g","y"," ","i","n"," ","t","h","e"," ","C","l","i","m","a","t","e"," ","T","h","e"," ","R","o","l","e"," ","o","f"," ","R","e","n","e","w","a","b","l","e"," ","E","n","e","r","g","y"," ","i","n"," ","t","h","e"," ","C","l","i","m","a","t","e">>

\* 225 characters: two spaces after every "The" and a space at the end
TxtRoleLongWide ==
  <<"T","h","e"," "," ","R","o","l","e"," ","o","f"," ","R","e","n","e","w","a","b","l","e"," ","E","n","e","r","g","y"," ","i","n"," ","t","h","e"," ","C","l","i","m","a","t","e"," ","T","h","e"," "," ","R","o","l","e"," ","o","f"," ","R","e","n","e","w","a","b","l","e"," ","E","n","e","r","g","y"," ","i","n"," ","t","h","e"," ","C","l","i","m","a","t","e"," ","T","h","e"," "," ","R","o","l","e"," ","o","f"," ","R","e","n","e","w","a","b","l","e"," ","E","n","e","r","g","y"," ","i","n"," ","t","h","e"," ","C","l","i","m","a","t","e"," ","T","h","e"," "," ","R","o","l","e"," ","o","f"," ","R","e","n","e","w","a","b","l","e"," ","E","n","e","r","g","y"," ","i","n"," ","t","h","e"," ","C","l","i","m","a","t","e"," ","T","h","e"," "," ","R","o","l","e"," ","o","f"," ","R","e","n","e","w","a","b","l","e"," ","E","n","e","r","g","y"," ","i","n"," ","t","h","e"," ","C","l","i","m","a","t","e"," ">>

TxtEmptyParens == <<"("," ",")">>

TxtDashes == <<"-","-","-">>

TxtHash == <<"#">>

TxtPageOneOfFive == <<"P","a","g","e"," ","1"," ","o","f"," ","5">>

TxtTwoSentences == <<"F","i","r","s","t"," ","p","a","r","t","."," ","S","e","c","o","n","d"," ","p","a","r","t",".">>

\* 125 characters without a space
TxtUnbroken ==
  <<"x","x","x","x","x","x","x","x","x","x","x","x","x","x","x","x","x","x","x","x","x","x","x","x","x","x","x","x","x","x","x","x","x","x","x","x","x","x","x","x","x","x","x","x","x","x","x","x","x","x","x","x","x","x","x","x","x","x","x","x","x","x","x","x","x","x","x","x","x","x","x","x","x","x","x","x","x","x","x","x","x","x","x","x","x","x","x","x","x","x","x","x","x","x","x","x","x","x","x","x","x","x","x","x","x","x","x","x","x","x","x","x","x","x","x","x","x","x","x","x","x","x","x","x","x">>

TxtAb == <<"a","b">>

TxtSubIntroduction == <<"1","2",".","3"," ","I","n","t","r","o","d","u","c","t","i","o","n">>

TxtSentence ==
  <<"w","e"," ","s","a","y"," ","t","h","a","t"," ","t","h","e"," ","d","a","t","a"," ","o","f"," ","t","h","e"," ","o","l","d"," ","s","y","s","t","e","m"," ","i","s"," ","c","o","p","i","e","d"," ","t","o"," ","t","h","e"," ","n","e","w"," ","o","n","e"," ","i","n"," ","t","h","e"," ","n","e","x","t"," ","s","t","e","p"," ","x"," ","x",".">>

TxtPageOne == <<"P","a","g","e"," ","1">>

TxtOfFive == <<"o","f"," ","5">>

TxtPage == <<"P","a","g","e">>

TxtTwo == <<"2">>

\* the scenario of the numbered headings: the first heading at the top of
\* page 0, the second below it, the paragraph below both
IntroductionDocuments ==
  {<<TextBlock(TxtIntroduction, 0, 18, "arial", "bold", 72, 300, top, 20),
     TextBlock(TxtSubsection, 0, 14, "arial", weight, 72, 300, 666, 16),
     TextBlock(TxtParagraph, 0, 11, "arial", "normal", 72, 500, 620, 12)>> :
   top \in {720, 780}, weight \in {"normal", "bold"}}

\* the scenario of the title in two fragments of size 24 on page 0, the
\* second one directly below the first
ClimateDocuments ==
  {<<TextBlock(TxtClimate, 0, 24, "arial", weight, 72, 300, 750, 26),
     TextBlock(TxtRole, 0, 24, "arial", weight, 72, 500, below, 26)>> :
   weight \in {"normal", "bold"}, below \in {724, 714, 690}}

\* a long paragraph in the smallest of four font sizes, alone on page 1
ParagraphDocuments ==
  {<<TextBlock(TxtAnnualReport, 0, 20, "arial", "bold", 72, 300, 750, 20),
     TextBlock(TxtOverview, 0, 16, "arial", "bold", 72, 300, 700, 16),
     TextBlock(TxtSubsection, 0, 14, "arial", "normal", 72, 300, 650, 14),
     TextBlock(TxtLongParagraph, 1, 11, "arial", "normal", left, 500, 100, 12)>> :
   left \in {72, 90}}

\* the scenario of the page footer in two fragments on one line, in a heading
\* font: "Page 1" and "of 5" at the bottom of page 0 below two headings, or
\* "Page" and "2" at the top of page 1
FooterDocuments ==
  {<<TextBlock(TxtAnnualReport, 0, 20, "arial", "bold", 72, 300, 750, 20),
     TextBlock(TxtOverview, 0, 16, "arial", "bold", 72, 300, 700, 16),
     TextBlock(TxtPageOne, 0, size, "arial", "bold", 72, 110, 60, size),
     TextBlock(TxtOfFive, 0, size, "arial", "bold", 110 + gap, 140 + gap, 60, size)>> :
   size \in {16, 20}, gap \in {4, 40}}
  \cup
  {<<TextBlock(TxtAnnualReport, 0, 20, "arial", "bold", 72, 300, 750, 20),
     TextBlock(TxtPage, 1, size, "arial", "bold", 72, 110, 760, size),
     TextBlock(TxtTwo, 1, size, "arial", "bold", 110 + gap, 120 + gap, 760, size)>> :
   size \in {16, 20}, gap \in {4, 40}}

\* the scenario of the title with irregular spacing or of more than 200
\* characters, in the largest font at the top of page 0, alone or above a
\* heading
TitleDocuments ==
  {<<TextBlock(text, 0, 24, "arial", "bold", 72, 500, 750, 24)>> \o rest :
   text \in {TxtAnnualReportWide, TxtRoleLong, TxtRoleLongWide},
   rest \in {<<>>, <<TextBlock(TxtOverview, 0, 14, "arial", "bold", 72, 300, 700, 14)>>}}

\* the scenario of the artifact in a heading font: empty brackets, dashes, a
\* single symbol, a page footer, two sentences; alone at the top of page 0 or
\* at its bottom below a heading
ArtifactDocuments ==
  {<<TextBlock(text, 0, 16, "arial", "bold", 72, 300, 740, 16)>> :
   text \in {TxtEmptyParens, TxtDashes, TxtHash, TxtPageOneOfFive, TxtTwoSentences}}
  \cup
  {<<TextBlock(TxtAnnualReport, 0, 20, "arial", "bold", 72, 300, 750, 20),
     TextBlock(text, 0, 16, "arial", "bold", 72, 300, 60, 16)>> :
   text \in {TxtEmptyParens, TxtDashes, TxtHash, TxtPageOneOfFive, TxtTwoSentences}}

\* the scenario of the score at the base threshold: a long word in the second
\* font size at the top of page 1 (bold: 0.4*0.3 + 0.2*0.3 + 0.1*0.3 +
\* 0.1*0.4 + 0.1*0.5), above a short bold text
ThresholdDocuments ==
  {<<TextBlock(TxtUnbroken, 1, 8, "arial", weight, 200, 300, 740, 10),
     TextBlock(TxtAb, 1, 14, "arial", "bold", 72, 300, 300, 14)>> :
   weight \in {"normal", "bold"}}

\* the scenario of the page header: "Page 1 of 5" in a heading font at the top
\* of page 1, above a single symbol that is accepted as a fragment with a
\* confidence below 0.3
HeaderDocuments ==
  {<<TextBlock(TxtHash, 1, size, "arial", "bold", 72, 300, 300, size),
     TextBlock(TxtPageOneOfFive, 1, 16, "arial", "bold", 72, 300, 760, 16)>> :
   size \in {14, 16}}

\* the scenario of the weak title candidates: a page footer in a small font at
\* the top of page 0 (the fallback candidate, 0.2) above a sentence of 85
\* characters in the largest font at the bottom (normal: 0.4 + 0.2 - 0.2 - 0.1,
\* bold: 0.1 more)
DominanceDocuments ==
  {<<TextBlock(top, 0, 10, "arial", "normal", 72, 200, 750, 10),
     TextBlock(TxtSentence, 0, 20, "arial", weight, 72, 500, 100, 20)>> :
   top \in {TxtPageOneOfFive, TxtPageOne}, weight \in {"normal", "bold"}}

\* the blocks the other documents are made of; the last one has an empty
\* text and a box without area
BlockChoices ==
  {TextBlock(TxtOverview, 0, 16, "arial", "bold", 72, 300, 740, 16),
   TextBlock(TxtDots, 0, 16, "arial", "bold", 72, 300, 700, 16),
   TextBlock(TxtTableOfContents, 0, 14, "arial", "bold", 72, 300, 720, 14),
   TextBlock(TxtRevisionLine, 0, 12, "arial", "normal", 72, 500, 680, 12),
   TextBlock(TxtSubsection, 0, 14, "arial", "normal", 72, 300, 650, 14),
   TextBlock(TxtSummary, 1, 14, "times", "normal", 72, 300, 500, 14),
   TextBlock(TxtParagraph, 0, 11, "arial", "normal", 72, 500, 600, 12),
   TextBlock(<<>>, 0, 11, "arial", "normal", 72, 72, 560, 0)}

MaxBlocks == 2

Documents ==
  IntroductionDocuments \cup ClimateDocuments \cup ParagraphDocuments
  \cup FooterDocuments \cup TitleDocuments \cup ArtifactDocuments
  \cup ThresholdDocuments \cup DominanceDocuments \cup HeaderDocuments
  \cup UNION {[1..n -> BlockChoices] : n \in 0..MaxBlocks}

Init ==
  /\ document \in Documents
  /\ blocks = document
  /\ candidates = <<>>
  /\ scores = <<>>
  /\ title = <<>>
  /\ outline = <<>>
  /\ output = NoOutput
  /\ tocResult = "none"
  /\ error = "none"
  /\ runs = 0
  /\ tally = NoTally
  /\ pc = "classify"

Next ==
  \/ EmptyDocument
  \/ Classify
  \/ DetectTitle
  \/ BuildOutline
  \/ GenerateOutput
  \/ SaveErrorOutput

Spec == Init /\ [][Next]_vars

-----------------------------------------------------------------------------
(* The services called one after the other on any block list, the empty    *)
(* one included, without the branches of process_single_file.              *)

NextCalls ==
  \/ ClassifyTextBlocks
  \/ DetectTitle
  \/ BuildOutline
  \/ GenerateOutput

SpecCalls == Init /\ [][NextCalls]_vars

-----------------------------------------------------------------------------
(* analyze_font_relationships called on populations of blocks: the blocks   *)
(* are objects that keep the rank of the last call they were part of.       *)

MaxRankBlocks == 3

RankSizes == {10, 12, 14}

\* font_analyzer.analyze_font_relationships(text_blocks) on the blocks with
\* the indices in population; scores records the population and the
\* size_rankings of the call
AnalyzeFontRelationships ==
  /\ pc = "rank"
  /\ runs < MaxRuns
  /\ \E population \in SUBSET (1..Len(blocks)) :
       \E text_blocks \in {KeepIndices(blocks, population)} :
         \E ranked \in {analyze_font_relationships(text_blocks)} :
           /\ blocks' = [b \in 1..Len(blocks) |->
                           IF b \in population
                           THEN ranked[Cardinality({i \in population : i <= b})]
                           ELSE blocks[b]]
           /\ scores' = [population |-> population,
                         size_rankings |-> IF text_blocks = <<>> THEN <<>>
                                           ELSE calculate_relative_rankings(text_blocks)]
  /\ runs' = runs + 1
  /\ UNCHANGED <<tally, document, candidates, title, outline, output, tocResult, error, pc>>

InitRank ==
  /\ \E n \in 1..MaxRankBlocks :
       \E sizes \in [1..n -> RankSizes] :
         blocks = [b \in 1..n |->
                     TextBlock(TxtOverview, 0, sizes[b], "arial", "normal",
                               72, 300, 700 - 20 * b, sizes[b])]
  /\ document = blocks
  /\ candidates = <<>>
  /\ scores = [population |-> {}, size_rankings |-> <<>>]
  /\ title = <<>>
  /\ outline = <<>>
  /\ output = NoOutput
  /\ tocResult = "none"
  /\ error = "none"
  /\ runs = 0
  /\ tally = NoTally
  /\ pc = "rank"

NextRank == AnalyzeFontRelationships

SpecRank == InitRank /\ [][NextRank]_vars

-----------------------------------------------------------------------------
(* _merge_span_group called on a group of spans of one page.               *)

MaxSpans == 3

TxtIntro == <<"I","n","t","r","o">>

TxtIntroHyphen == <<"I","n","t","r","o","-">>

TxtDuction == <<"d","u","c","t","i","o","n">>

\* (x0, x1, y1): the left of a line, its continuation without a gap and with
\* a gap of 5 points, and the line below
SpanPlaces == {<<72, 100, 700>>, <<100, 140, 700>>, <<105, 145, 700>>, <<72, 140, 686>>}

SpanChoices ==
  {TextBlock(text, 0, 12, "arial", "normal", place[1], place[2], place[3], 12) :
   text \in {TxtIntro, TxtIntroHyphen, TxtDuction}, place \in SpanPlaces}

\* text_extractor._merge_span_group(current_group): the group in document,
\* the merged block in blocks
MergeSpanGroup ==
  /\ pc = "spans"
  /\ blocks' = <<merge_span_group(blocks)>>
  /\ pc' = "merged"
  /\ UNCHANGED <<tally, document, candidates, scores, title, outline, output, tocResult,
                 error, runs>>

InitSpans ==
  /\ document \in UNION {[1..n -> SpanChoices] : n \in 1..MaxSpans}
  /\ blocks = document
  /\ candidates = <<>>
  /\ scores = <<>>
  /\ title = <<>>
  /\ outline = <<>>
  /\ output = NoOutput
  /\ tocResult = "none"
  /\ error = "none"
  /\ runs = 0
  /\ tally = NoTally
  /\ pc = "spans"

NextSpans == MergeSpanGroup

SpecSpans == InitSpans /\ [][NextSpans]_vars

-----------------------------------------------------------------------------
(* build_outline called on any candidate list and title.                   *)

MaxHeadings == 2

HeadingTexts ==
  {TxtOverview, TxtAnnualReportWide, TxtAnnualReportCaps, TxtReportPart, TxtDots, <<Bullet>>,
   TxtClimate}

\* the levels determine_heading_level assigns, and one that is not a level
HeadingLevels == {"H1", "H2", "H3", "Body", "H4"}

\* (page, top coordinate y1)
HeadingPlaces == {<<0, 700>>, <<0, 300>>, <<1, 500>>}

DocumentTitles == {TxtAnnualReport, TxtReportLong, UntitledDocument}

\* a confidence of 0.5
HalfScore == Scale \div 2

\* a heading: every level and place for the plain text, and the other texts
\* as a second-level heading on page 0
HeadingChoices ==
  {h \in HeadingTexts \X HeadingLevels \X HeadingPlaces :
     h[1] = TxtOverview \/ (h[2] = "H2" /\ h[3][1] = 0)}

BuildInputs == UNION {[1..n -> HeadingChoices] : n \in 0..MaxHeadings}

InitBuild ==
  /\ \E hs \in BuildInputs :
       /\ blocks = [k \in 1..Len(hs) |->
                      TextBlock(hs[k][1], hs[k][3][1], 12, "arial", "normal",
                                72, 300, hs[k][3][2], 14)]
       /\ candidates = [k \in 1..Len(hs) |->
                          HeadingCandidate(k, HalfScore, NoFactors, hs[k][2])]
  /\ document = blocks
  /\ title \in DocumentTitles
  /\ scores = <<>>
  /\ outline = <<>>
  /\ output = NoOutput
  /\ tocResult = "none"
  /\ error = "none"
  /\ runs = 0
  /\ tally = NoTally
  /\ pc = "build"

NextBuild == BuildOutline \/ GenerateOutput

SpecBuild == InitBuild /\ [][NextBuild]_vars

-----------------------------------------------------------------------------
(* The merge passes applied again to their own result.                     *)

MaxFragments == 3

FragmentTexts == <<<<"A","b">>, <<"c","d">>, <<"e","f">>, <<"g","h">>>>

\* the distance of a fragment from the right edge of the one before it (from
\* the left edge of the page for the first one)
FragmentGaps == {2, 40, 90}

\* how much higher than y1 = 700 a fragment is
FragmentRises == {0, 2}

FragmentLines ==
  UNION {[1..n -> FragmentGaps \X FragmentRises] : n \in 1..MaxFragments}

\* the left edge of the k-th fragment of a line; a fragment is 10 wide
RECURSIVE FragmentLeft(_, _)
FragmentLeft(line, k) ==
  IF k = 1 THEN line[1][1] ELSE FragmentLeft(line, k - 1) + 10 + line[k][1]

InitMerge ==
  /\ \E line \in FragmentLines :
       /\ document = [k \in 1..Len(line) |->
                        TextBlock(FragmentTexts[k], 0, 16, "arial", "bold",
                                  FragmentLeft(line, k), FragmentLeft(line, k) + 10,
                                  700 + line[k][2], 16)]
       /\ candidates = [k \in 1..Len(line) |->
                          HeadingCandidate(k, HalfScore, NoFactors, "H1")]
  /\ blocks = document
  /\ scores = <<>>
  /\ title = <<>>
  /\ outline = <<>>
  /\ output = NoOutput
  /\ tocResult = "none"
  /\ error = "none"
  /\ runs = 0
  /\ tally = NoTally
  /\ pc = "merge"

NextMerge == MergeFragments

SpecMerge == InitMerge /\ [][NextMerge]_vars

-----------------------------------------------------------------------------
(* The two merge passes, one at a time, on fragments of one line with      *)
(* confidences of their own.                                                *)

\* confidences of 0.5 and 0.7
PassScores == {Scale \div 2, Frac(7, 10)}

\* one pass; scores records the candidates the pass was given, their sorted
\* list, the groups <<first, last>> of the loop and the blocks before the pass
PassStep(sameLine) ==
  /\ \E r \in {MergePass(candidates, blocks, sameLine)} :
        /\ candidates' = r.candidates
        /\ blocks' = r.blocks
  /\ scores' = [input |-> candidates,
                sorted |-> SortCandidates(candidates, blocks),
                groups |-> MergeGroups(SortCandidates(candidates, blocks), blocks, 1,
                                       sameLine),
                before |-> blocks,
                sameLine |-> sameLine]
  /\ UNCHANGED <<tally, document, title, outline, output, tocResult, error, runs>>

\* heading_candidates = self._merge_heading_fragments(heading_candidates)
MergeHeadingFragments ==
  /\ pc = "fragments"
  /\ PassStep(FALSE)
  /\ pc' = "sameline"

\* heading_candidates = self._merge_same_line_candidates(heading_candidates)
MergeSameLineCandidates ==
  /\ pc = "sameline"
  /\ PassStep(TRUE)
  /\ pc' = "merged"

InitPass ==
  /\ \E line \in FragmentLines :
       \E confidence \in [1..Len(line) -> PassScores] :
         /\ document = [k \in 1..Len(line) |->
                          TextBlock(FragmentTexts[k], 0, 16, "arial", "bold",
                                    FragmentLeft(line, k), FragmentLeft(line, k) + 10,
                                    700 + line[k][2], 16)]
         /\ candidates = [k \in 1..Len(line) |->
                            HeadingCandidate(k, confidence[k], NoFactors, "H1")]
  /\ blocks = document
  /\ scores = <<>>
  /\ title = <<>>
  /\ outline = <<>>
  /\ output = NoOutput
  /\ tocResult = "none"
  /\ error = "none"
  /\ runs = 0
  /\ tally = NoTally
  /\ pc = "fragments"

NextPass == MergeHeadingFragments \/ MergeSameLineCandidates

SpecPass == InitPass /\ [][NextPass]_vars

-----------------------------------------------------------------------------
(* The table-of-contents extractor called on a block list.                 *)

MaxTocBlocks == 2

TocBlockChoices ==
  {TextBlock(TxtTableOfContents, page, 14, "arial", "bold", 72, 300, 720, 14) :
     page \in {0, 1}}
  \cup {TextBlock(TxtRevisionLine, page, size, "arial", "normal", 72, 500, 680, size) :
          page \in {0, 1, 2}, size \in {9, 18}}
  \cup {TextBlock(TxtScopeLine, 0, 12, "arial", "normal", 72, 500, 650, 12),
        TextBlock(TxtOverview, 0, 16, "arial", "bold", 72, 300, 740, 16)}

TocDocuments == UNION {[1..n -> TocBlockChoices] : n \in 0..MaxTocBlocks}

InitToc ==
  /\ document \in TocDocuments
  /\ blocks = document
  /\ candidates = <<>>
  /\ scores = <<>>
  /\ title = <<>>
  /\ outline = <<>>
  /\ output = NoOutput
  /\ tocResult = "none"
  /\ error = "none"
  /\ runs = 0
  /\ tally = NoTally
  /\ pc = "toc"

NextToc == ExtractTocHeadings

SpecToc == InitToc /\ [][NextToc]_vars

-----------------------------------------------------------------------------
(* determine_heading_level called for the candidates of a list, one after  *)
(* the other, as the loop of classify_text_blocks calls it for the         *)
(* candidate it has just created.                                          *)

\* the levels determine_heading_level can return: the scores of the model
\* are exact, and where two of them are equal and the largest, the floating
\* point sums of the program can differ in the last bit, so that
\* max(scores, key=scores.get) returns either level
LevelOutcomes(confidence_score, factors, block) ==
  The({{first} \cup (IF first = "Body" THEN {}
                     ELSE {l \in Levels : s[l] = Max(s.H1, Max(s.H2, s.H3))}) :
       first \in {determine_heading_level(confidence_score, factors, block)},
       s \in {LevelScores(confidence_score, factors, block)}})

\* the level of the next candidate of the list is determined
DetermineLevel ==
  /\ pc = "level"
  /\ runs < Len(candidates)
  /\ \E k \in {runs + 1} :
        \E level \in LevelOutcomes(candidates[k].confidence_score,
                                   candidates[k].classification_factors,
                                   blocks[candidates[k].blk]) :
          candidates' = [candidates EXCEPT ![k].suggested_level = level]
  /\ runs' = runs + 1
  /\ pc' = IF runs + 1 = Len(candidates) THEN "levelled" ELSE "level"
  /\ UNCHANGED <<tally, document, blocks, scores, title, outline, output, tocResult, error>>

\* confidence, font rank, (page, top coordinate y1) and text of a candidate
LevelChoices ==
  {Frac(5, 100), Frac(1, 10), Frac(2, 10), Frac(3, 10), Frac(5, 10)}
  \X {0, 1, 2, 3}
  \X {<<0, 750>>, <<0, 300>>, <<1, 750>>}
  \X {TxtOverview, TxtIntroduction, TxtSubsection, TxtPageOneOfFive, TxtSubIntroduction}

\* the candidates that are in the list before the one of interest
OtherChoices ==
  {<<Frac(5, 10), 0, <<0, 780>>, TxtIntroduction>>,
   <<Frac(3, 10), 2, <<1, 300>>, TxtSubsection>>,
   <<Frac(5, 100), 3, <<1, 60>>, TxtPageOneOfFive>>}

LevelInputs ==
  {<<c>> : c \in LevelChoices} \cup {<<o, c>> : o \in OtherChoices, c \in LevelChoices}

InitLevel ==
  /\ \E cs \in LevelInputs :
       /\ blocks = [k \in 1..Len(cs) |->
                      TextBlock(cs[k][4], cs[k][3][1], 12, "arial", "normal",
                                72, 300, cs[k][3][2], 14)]
       /\ candidates = [k \in 1..Len(cs) |->
                          HeadingCandidate(
                            k, cs[k][1],
                            [NoFactors EXCEPT !.relative_size_rank = cs[k][2]], "None")]
  /\ document = blocks
  /\ scores = <<>>
  /\ title = <<>>
  /\ outline = <<>>
  /\ output = NoOutput
  /\ tocResult = "none"
  /\ error = "none"
  /\ runs = 0
  /\ tally = NoTally
  /\ pc = "level"

NextLevel == DetermineLevel

SpecLevel == InitLevel /\ [][NextLevel]_vars

-----------------------------------------------------------------------------
(* The loop of main over the input files, with the same HeadingClassifier, *)
(* TitleDetector, HierarchyBuilder and JSONGenerator for every file.  The  *)
(* services keep the configuration only; what the model keeps from one     *)
(* file to the next is every variable that the next file has not assigned  *)
(* yet.                                                                    *)

\* how many files main discovers at most
MaxFiles == 2

\* the empty document, the scenarios, and a document that makes the pipeline
\* fail (a candidate of dots only)
BatchDocuments ==
  {<<>>} \cup IntroductionDocuments \cup ClimateDocuments \cup FooterDocuments
  \cup {<<TextBlock(TxtDots, 0, 16, "arial", "bold", 72, 300, 700, 16),
          TextBlock(TxtOverview, 0, 16, "arial", "bold", 72, 300, 740, 16)>>}

\* a loop that counts only the files that succeeded
CountsSuccessOnly ==
  /\ pc \in {"done", "reported"}
  /\ tally' = [tally EXCEPT !.successful_count =
                              IF pc = "done" THEN @ + 1 ELSE @]
  /\ pc' = "counted"
  /\ UNCHANGED <<document, blocks, candidates, scores, title, outline, output,
                 tocResult, error, runs>>

\* the if statement of the loop of main: process_single_file has returned
\* True (after the output was saved) or False (from its except branch), and
\* the file is counted
CountResult ==
  /\ pc \in {"done", "reported"}
  /\ tally' = IF pc = "done"
              THEN [tally EXCEPT !.successful_count = @ + 1]
              ELSE [tally EXCEPT !.failed_count = @ + 1]
  /\ pc' = "counted"
  /\ UNCHANGED <<document, blocks, candidates, scores, title, outline, output,
                 tocResult, error, runs>>

\* the end of the loop of main: 0 is returned if no file failed, else 1
MainReturns ==
  /\ pc = "counted"
  /\ runs + 1 = tally.pdf_files
  /\ tally' = [tally EXCEPT !.returned =
                              IF tally.failed_count = 0 THEN <<0>> ELSE <<1>>]
  /\ pc' = "returned"
  /\ UNCHANGED <<document, blocks, candidates, scores, title, outline, output,
                 tocResult, error, runs>>

\* a loop whose block list is not emptied between two files
NextFileKeepsBlocks ==
  /\ pc = "counted"
  /\ runs + 1 < tally.pdf_files
  /\ \E d \in BatchDocuments :
        /\ document' = d
        /\ blocks' = blocks \o d
  /\ error' = "none"
  /\ runs' = runs + 1
  /\ pc' = "classify"
  /\ UNCHANGED <<tally, candidates, scores, title, outline, output, tocResult>>

\* the next iteration of the for loop of main: process_single_file is called
\* for the next file and extracts its text blocks into a new list
NextFile ==
  /\ pc = "counted"
  /\ runs + 1 < tally.pdf_files
  /\ \E d \in BatchDocuments :
        /\ document' = d
        /\ blocks' = d
  /\ error' = "none"
  /\ runs' = runs + 1
  /\ pc' = "classify"
  /\ UNCHANGED <<tally, candidates, scores, title, outline, output, tocResult>>

InitBatch ==
  /\ document \in BatchDocuments
  /\ blocks = document
  /\ candidates = <<>>
  /\ scores = <<>>
  /\ title = <<>>
  /\ outline = <<>>
  /\ output = NoOutput
  /\ tocResult = "none"
  /\ error = "none"
  /\ runs = 0
  /\ \E n \in 1..MaxFiles : tally = [NoTally EXCEPT !.pdf_files = n]
  /\ pc = "classify"

NextBatch ==
  \/ EmptyDocument
  \/ Classify
  \/ DetectTitle
  \/ BuildOutline
  \/ GenerateOutput
  \/ SaveErrorOutput
  \/ CountResult
  \/ NextFile
  \/ MainReturns

SpecBatch == InitBatch /\ [][NextBatch]_vars

-----------------------------------------------------------------------------
(* Properties of build_outline and of the JSON stage.                      *)

Built == pc \in {"json", "done"}

\* C1 (as claimed): in the outline returned by build_outline no H2 entry comes
\* before the first H1 entry and no H3 entry comes before the first H2 entry.
C1_LevelMonotonicity ==
  Built =>
    \A j \in 1..Len(outline) :
      /\ outline[j].level = "H2" => \E i \in 1..(j - 1) : outline[i].level = "H1"
      /\ outline[j].level = "H3" => \E i \in 1..(j - 1) : outline[i].level = "H2"

\* C2 (as claimed): the entries of the outline are in reading order: pages do
\* not decrease, and on one page the entry of a higher block (larger y1) comes
\* before the entry of a lower block.
C2_ReadingOrder ==
  Built =>
    \A i, j \in 1..Len(outline) :
      /\ i < j => outline[i].page <= outline[j].page
      /\ (/\ outline[i].page = outline[j].page
          /\ blocks[outline[i].origin].y1 > blocks[outline[j].origin].y1) => i < j

\* comparison ignoring letter case and whitespace differences
SameIgnoringCaseAndSpace(a, b) ==
  Lower(CollapseSpaces(Strip(a))) = Lower(CollapseSpaces(Strip(b)))

\* C3 (as claimed): no entry of the outline has a text equal to the title when
\* the two are compared ignoring letter case and whitespace differences.
C3_NoTitleEntry ==
  Built => \A i \in 1..Len(outline) : ~SameIgnoringCaseAndSpace(outline[i].text, title)

\* C10 (as claimed): a candidate whose entry would be malformed (a text that is
\* empty after cleaning) is dropped alone; build_outline followed by JSON
\* generation never fails the document because of it.
C10_MalformedNotFatal == error = "none"

-----------------------------------------------------------------------------
(* Properties of the pipeline, of the merge passes and of the TOC          *)
(* extractor.                                                              *)

\* the entries of the outline as (level, text, page)
OutlineTriples ==
  [k \in 1..Len(outline) |-> <<outline[k].level, outline[k].text, outline[k].page>>]

\* C4 (as claimed): for the document of the numbered headings ("1. Introduction"
\* size 18 bold at the top, "1.1 Background" size 14 below it, a long paragraph
\* size 11) classify_text_blocks, detect_title and build_outline yield exactly
\* the outline [(H1, "1. Introduction", 0), (H2, "1.1 Background", 0)].
C4_IntroductionOutline ==
  (Built /\ document \in IntroductionDocuments) =>
    OutlineTriples = << <<"H1", TxtIntroduction, 0>>, <<"H2", TxtSubsection, 0>> >>

\* C5 (as claimed): for the document of the two title fragments of size 24
\* ("Climate Change" on top, "The Role of Renewable Energy in Combating"
\* directly below) the detected title is their concatenation from top to
\* bottom, and the outline has neither fragment.
C5_ClimateTitle ==
  (Built /\ document \in ClimateDocuments) =>
    /\ title = TxtClimateRole
    /\ \A k \in 1..Len(outline) : outline[k].text \notin {TxtClimate, TxtRole}

\* the headings the TOC lines of a block list parse to, as (level, text,
\* page), one for every distinct line
TocEntries(blks) ==
  The({[k \in 1..Len(kept) |->
          <<TocHeading(kept[k].text).level, TocHeading(kept[k].text).text,
            TocHeading(kept[k].text).page>>] :
       kept \in {The({KeepIndices(lines,
                                  {k \in 1..Len(lines) :
                                     \A i \in 1..(k - 1) : lines[i].text # lines[k].text}) :
                      lines \in {TocLines(blks)}})}})

\* C6 (as claimed): when the document has a table-of-contents page with at
\* least one line the TOC extractor parses, the outline the pipeline produces
\* consists of exactly the TOC headings, with the levels of the numbering
\* prefixes.
C6_TocPrecedence ==
  (Built /\ TocLines(document) # <<>>) => OutlineTriples = TocEntries(document)

\* a page has the marker "Table of Contents" and that page or the next one has
\* the line "Revision History ........... 3"
HasRevisionLine(blks) ==
  \E m, l \in 1..Len(blks) :
    /\ Contains(Lower(blks[m].text), Lower(TxtTableOfContents))
    /\ blks[l].text = TxtRevisionLine
    /\ blks[l].page_number \in {blks[m].page_number, blks[m].page_number + 1}

\* C7 (as claimed): for a block list with the marker and the line "Revision
\* History ........... 3", extract_toc_headings returns without raising, and
\* returns a heading of level H1, text "Revision History" and page 3, whatever
\* the font size of the line.
C7_RevisionHistory ==
  (pc \in {"done", "failed"} /\ HasRevisionLine(document)) =>
    /\ ~tocResult.raised
    /\ \E k \in 1..Len(tocResult.headings) :
          tocResult.headings[k] = [level |-> "H1", text |-> TxtRevisionHistory, page |-> 3]

\* C8 (as claimed): the combined score calculate_heading_score returns for a
\* block lies in [0, 1], for every block of every document.
C8_ScoreBounded ==
  \A b \in 1..Len(scores) :
    0 <= scores[b].confidence_score /\ scores[b].confidence_score <= Scale

\* the candidates as a set: text, bounding box, confidence and level
CandidateSet ==
  {<<blocks[candidates[k].blk].text,
     blocks[candidates[k].blk].x0, blocks[candidates[k].blk].y0,
     blocks[candidates[k].blk].x1, blocks[candidates[k].blk].y1,
     candidates[k].confidence_score, candidates[k].suggested_level>> :
   k \in 1..Len(candidates)}

\* C9 (as claimed): applying the two merge passes to a candidate list that is
\* already their output returns the same set of candidates.
C9_MergeIdempotent ==
  [][(runs >= 1 /\ runs' = runs + 1) => CandidateSet' = CandidateSet]_vars

-----------------------------------------------------------------------------
(* Empty and heading-free inputs.                                          *)

-----------------------------------------------------------------------------
(* Contracts of the services.                                              *)

\* C12: every entry of an outline that build_outline returns has a level among
\* H1, H2, H3, a text that is not empty and has no surrounding whitespace, and
\* a page that is at least 0.
C12_EntryInvariants ==
  Built =>
    \A i \in 1..Len(outline) :
      /\ outline[i].level \in {"H1", "H2", "H3"}
      /\ outline[i].text # <<>>
      /\ Strip(outline[i].text) = outline[i].text
      /\ outline[i].page >= 0

\* build_outline has returned an outline of two entries of different levels
C12_EntriesWitness ==
  /\ pc = "json"
  /\ Len(outline) = 2
  /\ outline[1].level # outline[2].level

\* the candidates that are not classified as body
HeadingCandidates == SelectSeq(candidates, LAMBDA c : c.suggested_level # "Body")

\* C13: a candidate with suggested_level Body is never emitted: build_outline
\* does with a candidate list, merged candidates included, what it does with
\* the list without its Body candidates, and no entry of the outline it
\* returns was built from a Body candidate.
C13_BodyNeverEmitted ==
  [][pc = "build" =>
       \E r \in {build_outline(HeadingCandidates, blocks, title)} :
          /\ (pc' = "failed") = r.raised
          /\ (pc' = "json") = ~r.raised
          /\ pc' = "json" =>
                /\ outline' = r.doc.outline
                /\ \A i \in 1..Len(outline') : \A k \in 1..Len(candidates) :
                      candidates[k].blk = outline'[i].origin =>
                        candidates[k].suggested_level # "Body"]_vars

\* build_outline has returned a non-empty outline for a candidate list with a
\* Body candidate that the merge passes produced
C13_MergedBodyWitness ==
  /\ pc = "json"
  /\ outline # <<>>
  /\ \E k \in 1..Len(candidates) :
        /\ candidates[k].suggested_level = "Body"
        /\ blocks[candidates[k].blk].text # document[candidates[k].blk].text

C15_SerializerKeepsOrder ==
  pc = "done" =>
    /\ Len(output.outline) = Len(outline)
    /\ \A i \in 1..Len(outline) :
          /\ output.outline[i].level = outline[i].level
          /\ output.outline[i].page = outline[i].page

\* generate_output has returned for an outline of two entries of different
\* levels and pages, and has changed the text of one of them
C15_SerializedWitness ==
  /\ pc = "done"
  /\ Len(outline) = 2
  /\ outline[1].level # outline[2].level
  /\ outline[1].page # outline[2].page
  /\ \E i \in 1..2 : output.outline[i].text # outline[i].text

\* what build_outline gives for a document that is processed alone
ProcessedAlone(d) ==
  The({The({build_outline(r.candidates, r.blocks, t) :
            t \in {detect_title(r.blocks, r.candidates)}}) :
       r \in {classify_text_blocks(d)}})

\* C16: with the same service instances for every file, the title and the
\* outline obtained for a document are those obtained when it is processed
\* alone, whatever was processed before it.
C16_NoCrossDocumentState ==
  (pc \in {"json", "failed"} /\ error # "JSONGenerationError") =>
    \E alone \in {ProcessedAlone(document)} :
      /\ alone.raised = (pc = "failed")
      /\ pc = "json" => (title = alone.doc.title /\ outline = alone.doc.outline)

\* the outline of the second file has been built, after a first file with
\* another title and other candidates was processed to its end
C16_SecondFileWitness ==
  /\ runs = 1
  /\ pc = "json"
  /\ outline # <<>>
  /\ output.title # <<>>
  /\ output.title # title
  /\ output.outline # <<>>

-----------------------------------------------------------------------------
(* Properties of the scores and of the acceptance of candidates.           *)

\* C17 (as claimed): each of the five sub-scores computed for a block (font,
\* position, whitespace, text pattern, length) lies in [0, 1], for every block
\* of every document.
C17_SubScoresBounded ==
  \A b \in 1..Len(scores) :
    \A s \in {scores[b].factors.font_score, scores[b].factors.position_score,
              scores[b].factors.whitespace_score, scores[b].factors.text_pattern_score,
              scores[b].factors.length_score} :
      0 <= s /\ s <= Scale

\* the pure artifacts: empty brackets, dashes only, dots only, a single
\* symbol, a footer "page N of M", more than one sentence
PureArtifact(text) ==
  \E t \in {Strip(text)} :
    \/ t \in {<<"(",")">>, <<"("," ",")">>, <<"[","]">>, <<"{","}">>}
    \/ t # <<>> /\ \A i \in 1..Len(t) : t[i] = "-"
    \/ t # <<>> /\ \A i \in 1..Len(t) : t[i] = "."
    \/ Len(t) = 1 /\ ~IsAlnum(t[1])
    \/ MatchPageFooter(t) /\ Contains(Lower(t), <<"o","f">>)
    \/ CountChar(t, ".") + CountChar(t, "!") + CountChar(t, "?") > 1

\* C18 (as claimed): the text-pattern score of a block whose text is a pure
\* artifact is exactly 0.
C18_ArtifactsScoreZero ==
  \A b \in 1..Len(scores) :
    PureArtifact(document[b].text) => scores[b].factors.text_pattern_score = 0

\* C19 (as claimed): the loop of classify_text_blocks creates a candidate for
\* a block if and only if the combined score of the block is greater than the
\* threshold that applies to it: 0.2 for a potential fragment, 0.3 otherwise.
C19_AcceptedIffAboveThreshold ==
  \A b \in 1..Len(scores) :
    scores[b].accepted =
      (scores[b].confidence_score >
         (IF scores[b].is_potential_fragment THEN Frac(2, 10) ELSE Frac(3, 10)))

\* the three competing scores of the k-th candidate, from its own confidence,
\* font rank, page, position and text
OwnLevelScores(k) ==
  LevelScores(candidates[k].confidence_score, candidates[k].classification_factors,
              blocks[candidates[k].blk])

\* C20: the level determine_heading_level returns for a candidate is Body
\* exactly when the largest of the candidate's three competing scores is below
\* the base confidence threshold, and otherwise a level among H1, H2, H3 whose
\* score is the largest; the competing scores are those of the candidate's own
\* confidence, font rank, page, position and text, whatever other candidates
\* there are.
C20_LevelOfMaximalScore ==
  \A k \in 1..Len(candidates) :
    (pc \in {"level", "levelled"} /\ k <= runs) =>
      \E s \in {OwnLevelScores(k)}, level \in {candidates[k].suggested_level} :
        /\ level \in {"H1", "H2", "H3", "Body"}
        /\ (level = "Body") = (Max(s.H1, Max(s.H2, s.H3)) < Frac(3, 10))
        /\ level = "H1" => (s.H1 >= s.H2 /\ s.H1 >= s.H3)
        /\ level = "H2" => (s.H2 >= s.H1 /\ s.H2 >= s.H3)
        /\ level = "H3" => (s.H3 >= s.H1 /\ s.H3 >= s.H2)

\* the level Body has been returned for the second candidate of a list whose
\* first candidate got a heading level
C20_BodyAfterHeadingWitness ==
  /\ pc = "levelled"
  /\ Len(candidates) = 2
  /\ candidates[1].suggested_level \in {"H1", "H2", "H3"}
  /\ candidates[2].suggested_level = "Body"
  /\ blocks[2].text # TxtPageOneOfFive

\* C21 (as claimed): when the reconstruction from fragments yields no title,
\* detect_title returns the text of the best unique candidate if its score is
\* at least the title-confidence threshold or at least 1.5 times the score of
\* the runner-up, and the fallback title otherwise.
C21_BestOrFallback ==
  (/\ pc = "build"
   /\ blocks # <<>>
   /\ reconstruct_fragmented_title(candidates, blocks) = <<>>) =>
    \E u \in {TitleCandidates(blocks, candidates)} :
      title = validate_title(
                IF \/ u[1][2] >= config.title_confidence_threshold
                   \/ (Len(u) > 1 /\ 2 * u[1][2] >= 3 * u[2][2])
                THEN u[1][1]
                ELSE get_fallback_title(blocks))

\* C22: detect_title never returns through the consensus rule: the
\* candidates are unique by text before they are ranked, so whenever there is
\* more than one of them the three best do not all have the same text.
C22_ConsensusUnreachable ==
  pc \in {"title", "build"} =>
    ~ConsensusApplies(TitleCandidates(blocks, candidates))

\* detect_title has ranked more than one unique candidate with the best one
\* below the consensus threshold, after strategies that proposed one text
\* more than once
C22_RuleTriedWitness ==
  /\ pc = "build"
  /\ blocks # <<>>
  /\ reconstruct_fragmented_title(candidates, blocks) = <<>>
  /\ \E u \in {TitleCandidates(blocks, candidates)} :
        /\ Len(u) > 1
        /\ u[1][2] < config.title_consensus_threshold
        /\ Len(find_title_candidates_from_font_analysis(blocks))
             + Len(find_title_candidates_from_placement(blocks)) + 1 > Len(u)

\* the heading text is the title, or more than 4 words of which more than 80%
\* occur in the title
DuplicateOrSubset(heading_text, document_title) ==
  \E heading_lower \in {Strip(Lower(heading_text))},
     title_lower \in {Strip(Lower(document_title))} :
    \/ heading_lower = title_lower
    \/ \E heading_words \in {WordSet(heading_lower)} :
         /\ Cardinality(heading_words) > 4
         /\ Cardinality(heading_words \cap WordSet(title_lower)) * 10
              > 8 * Cardinality(heading_words)

\* C23 (as claimed): build_outline drops a candidate that is not Body and
\* whose cleaned text is not empty if and only if its text is the title or a
\* high-overlap subset of the title; a heading unrelated to the title is
\* never dropped.
C23_DroppedIffTitleOverlap ==
  Built =>
    \A k \in 1..Len(candidates) :
      (/\ candidates[k].suggested_level # "Body"
       /\ Strip(clean_extracted_text(CandText(candidates[k], blocks))) # <<>>) =>
        ((\A i \in 1..Len(outline) : outline[i].origin # candidates[k].blk)
           <=> DuplicateOrSubset(CandText(candidates[k], blocks), title))

\* C24: after analyze_font_relationships has run over a population, the
\* rank of every block of the population is the number of distinct sizes of
\* the population that are larger than the block's size: the largest size
\* has rank 0, equal sizes have equal ranks, the ranks in use are contiguous;
\* this holds after every further run over another population.
C24_RankCountsLargerSizes ==
  (pc = "rank" /\ runs > 0) =>
    \E sizes \in {{blocks[b].size : b \in scores.population}} :
      /\ \A b \in scores.population :
            blocks[b].relative_size_rank
              = Cardinality({z \in sizes : z > blocks[b].size})
      /\ {blocks[b].relative_size_rank : b \in scores.population}
            = 0..(Cardinality(sizes) - 1)

\* a second run over a smaller population has given rank 0 to a block that
\* is smaller than a block outside the population, which keeps the rank 1
\* of the first run
C24_OverwrittenWitness ==
  /\ pc = "rank"
  /\ runs = 2
  /\ \E b \in scores.population, c \in (1..Len(blocks)) \ scores.population :
        /\ blocks[c].size > blocks[b].size
        /\ blocks[c].relative_size_rank = 1
        /\ blocks[b].relative_size_rank = 0

\* the texts of the first k spans with one space between each two, and none
\* after a text that ends with a hyphen
RECURSIVE SpacedTexts(_, _)
SpacedTexts(spans, k) ==
  IF k = 0 THEN <<>>
  ELSE SpacedTexts(spans, k - 1)
       \o (IF k = 1 \/ EndsWith(spans[k - 1].text, <<"-">>) THEN <<>> ELSE <<" ">>)
       \o spans[k].text

\* C25 (as claimed): the text of the block merged from a group of fragments
\* is the texts of the fragments in reading order with exactly one space
\* between each two consecutive fragments, and no space after a fragment that
\* ends with a hyphen.
C25_SingleSpaceJoin ==
  (pc = "merged" /\ Len(document) > 1) =>
    \E spans \in {SortSpans(document)} :
      blocks[1].text = SpacedTexts(spans, Len(spans))

\* the blocks, as they were before the last pass, of the members of its g-th
\* group
MemberBlocks(g) ==
  {scores.before[scores.sorted[k].blk] : k \in scores.groups[g][1]..scores.groups[g][2]}

\* C26: the candidate a merge pass returns for a group of more than one
\* candidate has the union of the members' boxes as its box, with width =
\* x1 - x0 >= 0 and height = y1 - y0 >= 0, and the maximum of the members'
\* confidence scores as its score.
C26_MergedBoxAndScore ==
  pc \in {"sameline", "merged"} =>
    \A g \in 1..Len(scores.groups) :
      scores.groups[g][2] > scores.groups[g][1] =>
        \E box \in {blocks[candidates[g].blk]}, members \in {MemberBlocks(g)} :
          /\ box.x0 = SetMin({m.x0 : m \in members})
          /\ box.y0 = SetMin({m.y0 : m \in members})
          /\ box.x1 = SetMax({m.x1 : m \in members})
          /\ box.y1 = SetMax({m.y1 : m \in members})
          /\ box.width = box.x1 - box.x0 /\ box.width >= 0
          /\ box.height = box.y1 - box.y0 /\ box.height >= 0
          /\ candidates[g].confidence_score
               = SetMax({scores.sorted[k].confidence_score :
                           k \in scores.groups[g][1]..scores.groups[g][2]})

\* the second pass has merged a block that the first pass had made of two
\* fragments at different heights with a fragment of a higher confidence
C26_MergedTwiceWitness ==
  /\ pc = "merged"
  /\ \E g \in 1..Len(scores.groups) :
        /\ scores.groups[g][2] > scores.groups[g][1]
        /\ \E m \in MemberBlocks(g) : m.height > 16
        /\ \E k \in scores.groups[g][1]..scores.groups[g][2] :
              scores.sorted[k].confidence_score < candidates[g].confidence_score

\* the text of the k-th candidate of the sorted list before the last pass
MemberText(k) == scores.before[scores.sorted[k].blk].text

\* C27: a merge pass partitions its input. The sorted list has the input's
\* candidates, each once, in the order of (page, y1, x0); the groups are
\* intervals of it that follow each other from the first candidate to the
\* last; every member of a group after its first satisfies the merge
\* predicate with the first; the pass returns one candidate per group, the
\* candidate itself with its block untouched for a group of one, and
\* otherwise a member whose text holds the text of every member; the text of
\* every input candidate is in exactly one returned candidate, and the
\* output is not longer than the input.
C27_PassPartitions ==
  pc \in {"sameline", "merged"} =>
    \E n \in {Len(scores.input)}, m \in {Len(scores.groups)} :
      /\ Len(scores.sorted) = n
      /\ \A i \in 1..n : Cardinality({k \in 1..n : scores.sorted[k] = scores.input[i]}) = 1
      /\ \A k \in 1..(n - 1) :
            ~LexLess(<<scores.before[scores.sorted[k + 1].blk].page_number,
                       scores.before[scores.sorted[k + 1].blk].y1,
                       scores.before[scores.sorted[k + 1].blk].x0>>,
                     <<scores.before[scores.sorted[k].blk].page_number,
                       scores.before[scores.sorted[k].blk].y1,
                       scores.before[scores.sorted[k].blk].x0>>)
      /\ (n > 0) => (m > 0 /\ scores.groups[1][1] = 1 /\ scores.groups[m][2] = n)
      /\ \A g \in 1..m : scores.groups[g][1] <= scores.groups[g][2]
      /\ \A g \in 1..(m - 1) : scores.groups[g + 1][1] = scores.groups[g][2] + 1
      /\ Len(candidates) = m
      /\ m <= n
      /\ \A g \in 1..m :
            IF scores.groups[g][1] = scores.groups[g][2]
            THEN /\ candidates[g] = scores.sorted[scores.groups[g][1]]
                 /\ blocks[candidates[g].blk] = scores.before[candidates[g].blk]
            ELSE /\ candidates[g].blk
                      \in {scores.sorted[k].blk : k \in scores.groups[g][1]..scores.groups[g][2]}
                 /\ \A k \in (scores.groups[g][1] + 1)..scores.groups[g][2] :
                       MergePredicate(scores.before[scores.sorted[scores.groups[g][1]].blk],
                                      scores.before[scores.sorted[k].blk],
                                      scores.sameLine)
                 /\ \A k \in scores.groups[g][1]..scores.groups[g][2] :
                       Contains(blocks[candidates[g].blk].text, MemberText(k))
      /\ \A k \in 1..n :
            Cardinality({g \in 1..m :
                           Contains(blocks[candidates[g].blk].text, MemberText(k))}) = 1

\* a pass over three candidates has merged two of them and returned the
\* third as it is
C27_MergedAndKeptWitness ==
  /\ pc \in {"sameline", "merged"}
  /\ Len(scores.input) = 3
  /\ Len(candidates) = 2
  /\ \E g \in 1..2 : scores.groups[g][2] = scores.groups[g][1] + 1

\* the text begins with digits, a period and a digit
HasSubsectionPrefix(text) ==
  \E n \in 1..(Len(text) - 2) :
    /\ \A i \in 1..n : text[i] \in DigitSet
    /\ text[n + 1] = "."
    /\ text[n + 2] \in DigitSet

\* C28: a candidate whose text begins with an "N.M" number gets the level H1
\* from determine_heading_level only at font rank 0; at rank 1 it gets H2 and
\* at rank 2 or below H3, for every confidence, page and position.
C28_NumberedNotH1 ==
  \A k \in 1..Len(candidates) :
    (/\ candidates[k].suggested_level # "None"
     /\ HasSubsectionPrefix(blocks[candidates[k].blk].text)) =>
      \E rank \in {candidates[k].classification_factors.relative_size_rank} :
        /\ candidates[k].suggested_level = "H1" => rank = 0
        /\ rank = 1 => candidates[k].suggested_level = "H2"
        /\ rank >= 2 => candidates[k].suggested_level = "H3"

\* a numbered subsection heading with the word "introduction" at the top of
\* page 0, in the second font size, has got the level H2
C28_TopOfPageWitness ==
  /\ pc = "levelled"
  /\ \E k \in 1..Len(candidates) :
        /\ HasSubsectionPrefix(blocks[candidates[k].blk].text)
        /\ Contains(Lower(blocks[candidates[k].blk].text), <<"i","n","t","r","o","d","u","c","t","i","o","n">>)
        /\ blocks[candidates[k].blk].page_number = 0
        /\ blocks[candidates[k].blk].y1 > 700
        /\ candidates[k].classification_factors.relative_size_rank = 1
        /\ candidates[k].suggested_level = "H2"

\* C29: with the thresholds 0.3 and 0.2, a block that the loop of
\* classify_text_blocks accepts gets the level Body if and only if its text
\* is a page footer ("page N", "page N of M"); for every other accepted block
\* the largest level score is at least the confidence plus 0.2.
C29_BodyIffFooter ==
  \A b \in 1..Len(scores) :
    scores[b].accepted =>
      \E s \in {LevelScores(scores[b].confidence_score, scores[b].factors, document[b])} :
        /\ (scores[b].suggested_level = "Body") <=> MatchPageFooter(document[b].text)
        /\ ~MatchPageFooter(document[b].text) =>
              Max(s.H1, Max(s.H2, s.H3)) >= scores[b].confidence_score + Frac(2, 10)

\* the loop has accepted a page footer, which got Body, and a block with a
\* confidence below the base threshold, which got a heading level
C29_FooterAndFragmentWitness ==
  /\ pc = "title"
  /\ \E b \in 1..Len(scores) :
        /\ scores[b].accepted
        /\ MatchPageFooter(document[b].text)
        /\ scores[b].suggested_level = "Body"
  /\ \E b \in 1..Len(scores) :
        /\ scores[b].accepted
        /\ scores[b].confidence_score < Frac(3, 10)
        /\ scores[b].suggested_level \in Levels \ {"Body"}

\* the files that the loop of main has counted
FilesCounted == IF pc \in {"counted", "returned"} THEN runs + 1 ELSE runs

\* C30: in the batch loop of main a failed file never stops the later files:
\* every file is counted once as successful or failed (the two counters add
\* up to the files handled so far, and to the discovered files when main
\* returns), a file whose pipeline failed has the "Error Processing" output
\* and is counted as failed, after any counted file that is not the last one
\* the next file can be processed, and main returns 0 exactly when no file
\* failed.
C30_EveryFileCountedOnce ==
  /\ [](/\ tally.successful_count + tally.failed_count = FilesCounted
        /\ runs + 1 <= tally.pdf_files
        /\ pc = "reported" =>
              output = [title |-> <<"E","r","r","o","r"," ","P","r","o","c","e","s","s","i","n","g"," ","-"," ">> \o FileStem,
                        outline |-> <<>>]
        /\ (pc = "counted" /\ runs + 1 < tally.pdf_files) => ENABLED NextFile
        /\ pc = "returned" =>
              /\ FilesCounted = tally.pdf_files
              /\ tally.returned = IF tally.failed_count = 0 THEN <<0>> ELSE <<1>>
        /\ pc # "returned" => tally.returned = <<>>)
  /\ [][/\ pc = "failed" => pc' = "reported"
        /\ pc = "reported" =>
              /\ tally'.failed_count = tally.failed_count + 1
              /\ tally'.successful_count = tally.successful_count
        /\ pc = "done" =>
              /\ tally'.successful_count = tally.successful_count + 1
              /\ tally'.failed_count = tally.failed_count
        /\ pc \notin {"done", "reported"} =>
              /\ tally'.successful_count = tally.successful_count
              /\ tally'.failed_count = tally.failed_count
              /\ tally'.pdf_files = tally.pdf_files
        /\ runs' \in {runs, runs + 1}]_vars

\* the first file failed, the second one was processed and succeeded, and main
\* returned 1
C30_LaterFileAfterFailureWitness ==
  /\ pc = "returned"
  /\ tally.pdf_files = 2
  /\ tally.failed_count = 1
  /\ tally.successful_count = 1
  /\ error = "none"
  /\ tally.returned = <<1>>
  /\ output.outline # <<>>

==============================================================================
